---- MODULE Spec2Model ----
(***************************************************************************)
(* A model of the audiophash pipeline (github.com/ast-jean/audiophash):    *)
(* configuration validation, container decoding, resampling, peak          *)
(* normalisation, framing, spectral magnitudes, median aggregation, log    *)
(* compression, median-threshold hashing, and the fingerprint comparator.  *)
(*                                                                         *)
(* Conventions.                                                            *)
(*  - A Go string is a sequence of one-character strings; "" is << >>.     *)
(*  - A uint64 is a sequence of 64 bits, index 1 being bit 63 (the most    *)
(*    significant), so shifts lose the bits that leave the word.           *)
(*  - A Go error is a string naming it; NoErr is the nil error.            *)
(*  - Feature values and magnitudes are reals kept as integers in a fixed  *)
(*    unit. Every value set used is made of even numbers, so the halving   *)
(*    in median() is exact.                                                *)
(***************************************************************************)
EXTENDS Integers, Sequences, FiniteSets, TLC

VARIABLES
    pc,             \* position of the running operation
    b,              \* AudioPHashBytes: the input bytes
    cfg,            \* AudioPHashBytes / ValidateAndFill: the supplied config (NilConfig = nil pointer)
    fileformat,     \* AudioPHashBytes: the format tag
    localCfg,       \* the config being validated and filled
    samples,        \* the current sample sequence
    sr,             \* the sample rate the decoder reported
    frames,         \* the result of audio.Frame
    frameMags,      \* per-frame magnitude spectra
    globalFeature,  \* the aggregated feature vector
    hashHex,        \* the fingerprint string (also the string given to HexToUint64)
    err,            \* the error returned (NoErr = nil)
    calls,          \* the stages invoked so far, in order
    x64,            \* a 64-bit value to render as hex
    u64,            \* the value HexToUint64 returned
    hs,             \* three 64-bit fingerprints to compare
    dist,           \* the distances computed between them
    given,          \* the sample sequence a function was called with
    fromHz,         \* Resample: the rate of the input
    toHz,           \* Resample: the rate asked for
    out,            \* what the function returned: [samples, err, fresh]
    op,             \* the function that was called
    wav,            \* the layout of the WAV file in b
    factor          \* the constant a client multiplied the features by

vars == <<pc, b, cfg, fileformat, localCfg, samples, sr, frames, frameMags,
          globalFeature, hashHex, err, calls, x64, u64, hs, dist,
          given, fromHz, toHz, out, op, wav, factor>>

pipeVars == <<b, cfg, fileformat, localCfg, samples, sr, frames, frameMags, calls>>
cmpVars  == <<x64, u64, hs, dist>>
callVars == <<given, fromHz, toHz, out, op, wav, factor>>

NoErr  == "nil"
None   == "none"

-----------------------------------------------------------------------------
(* Bounds of the model *)

\* pattern period of the generated feature vectors
PatLen == 3
\* feature values are 0, 2, .., 2*MaxFeatLevel
MaxFeatLevel == 2
\* short feature vectors have 1..MaxShortLen entries
MaxShortLen == 3
\* long feature vectors have up to HashBits + MaxOverLen entries
MaxOverLen == 2
\* compared fingerprints have the bits i with i % m = r set, m <= MaxMod
MaxMod == 3
\* strings given to HexToUint64 are within MaxStrDelta of sixteen characters
MaxStrDelta == 1
\* config fields given to ValidateAndFill range over -1..MaxCfgVal and the defaults
MaxCfgVal == 5
\* sample sequences given to Frame have up to MaxFrameSamples entries
MaxFrameSamples == 8
\* frame sizes given to Frame range over 0..MaxFrameSize
MaxFrameSize == 4
\* magnitudes are 0, 4, .., 4*MaxMagLevel
MaxMagLevel == 1
\* generated WAV buffers hold up to MaxWavFrames sample frames
MaxWavFrames == 4
\* generated raw PCM buffers hold up to MaxPcmBytes bytes
MaxPcmBytes == 9

\* width of the fingerprint
HashBits == 64
\* length of its hexadecimal rendering
HexLen == 16

-----------------------------------------------------------------------------
(* Generic helpers *)

Min(x, y) == IF x < y THEN x ELSE y
Max(x, y) == IF x > y THEN x ELSE y

\* the sum of s[lo..hi], by halves
RECURSIVE SumRange(_, _, _)
SumRange(s, lo, hi) ==
    IF lo > hi THEN 0
    ELSE IF lo = hi THEN s[lo]
    ELSE LET mid == (lo + hi) \div 2
         IN  SumRange(s, lo, mid) + SumRange(s, mid + 1, hi)

SeqSum(s) == SumRange(s, 1, Len(s))

\* sort.Float64s: ascending order. Place k holds the value v that has fewer
\* than k smaller entries and at least k entries not above it.
SortFloat64s(s) ==
    LET vals == {s[i] : i \in 1..Len(s)}
        below(v) == Cardinality({j \in 1..Len(s) : s[j] < v})
        upTo(v) == Cardinality({j \in 1..Len(s) : s[j] <= v})
    IN  [k \in 1..Len(s) |-> CHOOSE v \in vals : below(v) < k /\ k <= upTo(v)]

-----------------------------------------------------------------------------
(* float64 arithmetic (IEEE 754 binary64, round to nearest, ties to even) *)
(*                                                                         *)
(* A float64 is the record [sign, exp, mant]: the value sign * M * 2^exp,  *)
(* M the 53-bit integer 2^52 <= M < 2^53 held in mant as four limbs of 14  *)
(* bits, least significant first. Zero is F64Zero; -0 and +0 are one value *)
(* (Go's == does not tell them apart). The exponent is not bounded here:   *)
(* NaN and subnormals do not arise from the values of the model, and the   *)
(* one place where a result leaves the range of float64 is handled there   *)
(* (F64Range).                                                             *)

LimbBits == 14
LimbBase == 16384
\* bits of the significand
MantBits == 53

\* the element of a set of one element: The({e(v) : v \in {d}}) is e(d),
\* with d evaluated once
The(S) == CHOOSE only \in S : TRUE

\* carries are propagated through the n entries of a, each below 2^31
RECURSIVE BigCarry(_, _, _, _)
BigCarry(a, n, i, carry) ==
    IF i > n THEN << >>
    ELSE The({<<(tot % LimbBase)>> \o BigCarry(a, n, i + 1, tot \div LimbBase) :
                 tot \in {(IF i <= Len(a) THEN a[i] ELSE 0) + carry}})

\* the n-limb number with the (unnormalised) limbs of a
BigNorm(a, n) == BigCarry(a, n, 1, 0)

BigLimb(a, i) == IF i >= 1 /\ i <= Len(a) THEN a[i] ELSE 0

BigIsZero(a) == \A i \in 1..Len(a) : a[i] = 0

\* a < b, for numbers of any lengths
BigLess(a, c) ==
    \E k \in 1..Max(Len(a), Len(c)) :
        /\ BigLimb(a, k) < BigLimb(c, k)
        /\ \A j \in (k + 1)..Max(Len(a), Len(c)) : BigLimb(a, j) = BigLimb(c, j)

BigAdd(a, c, n) == BigNorm([i \in 1..n |-> BigLimb(a, i) + BigLimb(c, i)], n)

\* a - b for a >= b: a plus the complement of b plus one, modulo LimbBase^n
BigSub(a, c, n) ==
    BigNorm([i \in 1..n |-> BigLimb(a, i) + (LimbBase - 1 - BigLimb(c, i))
                               + (IF i = 1 THEN 1 ELSE 0)], n)

\* a * d for a digit d < LimbBase
BigMulSmall(a, d, n) == BigNorm([i \in 1..n |-> BigLimb(a, i) * d], n)

\* a * b for four-limb a and b: eight limbs. A column is the sum of up to
\* four products below 2^28.
BigMul(a, c) ==
    BigNorm([col \in 1..8 |->
                SumRange([i \in 1..4 |-> IF col + 1 - i >= 1 /\ col + 1 - i <= 4
                                         THEN a[i] * c[col + 1 - i] ELSE 0], 1, 4)], 8)

\* 2^k for 0 <= k <= LimbBits
Pow2(k) == 2 ^ k

\* a * 2^s, in n limbs
BigShl(a, s, n) ==
    BigNorm([i \in 1..n |->
                ((BigLimb(a, i - (s \div LimbBits)) * Pow2(s % LimbBits)) % LimbBase)
                + (BigLimb(a, i - (s \div LimbBits) - 1)
                   \div Pow2(LimbBits - (s % LimbBits)))], n)

\* floor(a / 2^s), in n limbs
BigShr(a, s, n) ==
    BigNorm([i \in 1..n |->
                (BigLimb(a, i + (s \div LimbBits)) \div Pow2(s % LimbBits))
                + ((BigLimb(a, i + (s \div LimbBits) + 1) % Pow2(s % LimbBits))
                   * Pow2(LimbBits - (s % LimbBits)))], n)

\* bit k of a, bit 0 the least significant
BigBit(a, k) == (BigLimb(a, k \div LimbBits + 1) \div Pow2(k % LimbBits)) % 2

\* one of the s lowest bits of a is set
BigLowBits(a, s) ==
    \E i \in 1..Len(a) :
        /\ a[i] # 0
        /\ \/ i * LimbBits <= s
           \/ (i - 1) * LimbBits < s /\ a[i] % Pow2(s - (i - 1) * LimbBits) # 0

\* the number of bits of the digit d > 0
LimbBitLen(d) == CHOOSE k \in 1..LimbBits : Pow2(k - 1) <= d /\ d < Pow2(k)

\* the place of the highest limb of a that is not zero
BigTop(a) == CHOOSE i \in 1..Len(a) : a[i] # 0 /\ \A j \in (i + 1)..Len(a) : a[j] = 0

\* the number of bits of a: 0 for zero
BigBitLen(a) ==
    IF BigIsZero(a) THEN 0
    ELSE The({(top - 1) * LimbBits + LimbBitLen(a[top]) : top \in {BigTop(a)}})

F64Zero == [sign |-> 0, exp |-> 0, mant |-> <<0, 0, 0, 0>>]

\* 2^52, the significand of the powers of two
MantOne == <<0, 0, 0, 1024>>

\* big without its s lowest bits, rounded to nearest, ties to even: five
\* limbs. A tie is broken upward if sticky.
RoundShr(big, s, sticky) ==
    The({IF BigBit(big, s - 1) = 1
            /\ (sticky \/ BigLowBits(big, s - 1) \/ (cutoff[1] % 2) = 1)
         THEN BigNorm([i \in 1..5 |-> BigLimb(cutoff, i) + (IF i = 1 THEN 1 ELSE 0)], 5)
         ELSE cutoff \o <<0>> :
         cutoff \in {BigShr(big, s, 4)}})

\* sign * (big + f) * 2^exp rounded to float64, where 0 < f < 1 if sticky and
\* f = 0 if not; big is not zero, and has 55 bits or more if sticky
F64Round(sign, big, exp, sticky) ==
    The({IF len <= MantBits
         THEN [sign |-> sign, exp |-> exp - (MantBits - len),
               mant |-> BigShl(big, MantBits - len, 4)]
         ELSE The({IF rounded[4] >= 2 * MantOne[4]
                   THEN [sign |-> sign, exp |-> exp + (len - MantBits) + 1, mant |-> MantOne]
                   ELSE [sign |-> sign, exp |-> exp + (len - MantBits),
                         mant |-> SubSeq(rounded, 1, 4)] :
                   rounded \in {RoundShr(big, len - MantBits, sticky)}}) :
         len \in {BigBitLen(big)}})

\* 2^k as a float64
F64Pow2(k) == [sign |-> 1, exp |-> k - (MantBits - 1), mant |-> MantOne]

F64Neg(x) == [x EXCEPT !.sign = -x.sign]
F64Abs(x) == [x EXCEPT !.sign = IF x.sign = 0 THEN 0 ELSE 1]

\* float64(k) for a 32-bit integer k
F64FromInt(k) ==
    IF k = 0 THEN F64Zero
    ELSE IF k = -2147483647 - 1 THEN F64Neg(F64Pow2(31))
    ELSE LET a == IF k < 0 THEN -k ELSE k
         IN  F64Round(IF k < 0 THEN -1 ELSE 1,
                      <<(a % LimbBase), ((a \div LimbBase) % LimbBase),
                        a \div (LimbBase * LimbBase)>>, 0, FALSE)

\* x * y; a power of two only moves the exponent
F64Mul(x, y) ==
    IF x.sign = 0 \/ y.sign = 0 THEN F64Zero
    ELSE IF y.mant = MantOne
    THEN [sign |-> x.sign * y.sign, exp |-> x.exp + y.exp + (MantBits - 1), mant |-> x.mant]
    ELSE IF x.mant = MantOne
    THEN [sign |-> x.sign * y.sign, exp |-> x.exp + y.exp + (MantBits - 1), mant |-> y.mant]
    ELSE F64Round(x.sign * y.sign, BigMul(x.mant, y.mant), x.exp + y.exp, FALSE)

\* the digit floor(r / d) for r < d * LimbBase, d of four limbs with its top
\* limb at least LimbBase/2: the estimate from the leading limbs is at most
\* two above the digit
DivDigit(r, d) ==
    LET est == Min(LimbBase - 1, (BigLimb(r, 5) * LimbBase + BigLimb(r, 4)) \div d[4])
    IN  CHOOSE q \in Max(0, est - 2)..est :
            /\ ~BigLess(r, BigMulSmall(d, q, 5))
            /\ BigLess(r, BigMulSmall(d, q + 1, 6))

\* long division: the remainder r (below d) takes `more` further zero limbs;
\* [quot, rem] with the digits of the quotient, most significant first
RECURSIVE DivLoop(_, _, _, _)
DivLoop(r, d, more, acc) ==
    IF more = 0 THEN [quot |-> acc, rem |-> r]
    ELSE The({The({DivLoop(BigSub(r1, BigMulSmall(d, q, 5), 5), d, more - 1, acc \o <<q>>) :
                      q \in {DivDigit(r1, d)}}) :
                 r1 \in {<<0>> \o SubSeq(r, 1, 4)}})

\* n0 / d for n0 < 2 * d * LimbBase^0, as [quot, rem] of DivLoop with four
\* further digits
DivMant(n0, d) ==
    IF BigLess(n0, d) THEN DivLoop(n0, d, 4, <<0>>)
    ELSE DivLoop(BigSub(n0, d \o <<0>>, 5), d, 4, <<1>>)

\* x / y for y # 0: the quotient of the significands to 56 bits or more,
\* with the remainder as the sticky bit; a power of two only moves the exponent
F64Div(x, y) ==
    IF x.sign = 0 THEN F64Zero
    ELSE IF y.mant = MantOne
    THEN [sign |-> x.sign * y.sign, exp |-> x.exp - y.exp - (MantBits - 1), mant |-> x.mant]
    ELSE The({F64Round(x.sign * y.sign, [i \in 1..5 |-> dv.quot[6 - i]],
                       x.exp - y.exp - 4 * LimbBits, ~BigIsZero(dv.rem)) :
                 dv \in {DivMant(BigShl(x.mant, 3, 5), BigShl(y.mant, 3, 4))}})

\* |x| < |y|
F64AbsLess(x, y) ==
    IF y.sign = 0 THEN FALSE
    ELSE IF x.sign = 0 THEN TRUE
    ELSE x.exp < y.exp \/ (x.exp = y.exp /\ BigLess(x.mant, y.mant))

\* x < y
F64Less(x, y) ==
    IF x.sign # y.sign THEN x.sign < y.sign
    ELSE IF x.sign = 1 THEN F64AbsLess(x, y)
    ELSE IF x.sign = -1 THEN F64AbsLess(y, x)
    ELSE FALSE

\* sg * big * 2^ex plus a term of sign `other` that lies wholly below the
\* lowest bit of big: the term only decides the rounding
F64Beside(sg, big, ex, other, n) ==
    IF sg = other
    THEN F64Round(sg, BigShl(big, 2, n), ex - 2, TRUE)
    ELSE F64Round(sg, BigSub(BigShl(big, 2, n), <<1>>, n), ex - 2, TRUE)

\* s1 * a1 * 2^lo + s2 * a2 * 2^lo rounded once
F64SumAligned(s1, a1, s2, a2, lo, n) ==
    IF s1 = s2 THEN F64Round(s1, BigAdd(a1, a2, n), lo, FALSE)
    ELSE IF a1 = a2 THEN F64Zero
    ELSE IF BigLess(a1, a2) THEN F64Round(s2, BigSub(a2, a1, n), lo, FALSE)
    ELSE F64Round(s1, BigSub(a1, a2, n), lo, FALSE)

\* s1 * b1 * 2^e1 + s2 * b2 * 2^e2 rounded once, for b1 and b2 of 53 bits or
\* more, computed in n limbs
F64Sum(s1, b1, e1, s2, b2, e2, n) ==
    IF e2 + BigBitLen(b2) <= e1 - 2 THEN F64Beside(s1, b1, e1, s2, n)
    ELSE IF e1 + BigBitLen(b1) <= e2 - 2 THEN F64Beside(s2, b2, e2, s1, n)
    ELSE F64SumAligned(s1, BigShl(b1, e1 - Min(e1, e2), n),
                       s2, BigShl(b2, e2 - Min(e1, e2), n), Min(e1, e2), n)

\* x + y
F64Add(x, y) ==
    IF x.sign = 0 THEN y
    ELSE IF y.sign = 0 THEN x
    ELSE F64Sum(x.sign, x.mant, x.exp, y.sign, y.mant, y.exp, 9)

\* x * y + z with a single rounding (a fused multiply-add)
F64Fma(x, y, z) ==
    IF x.sign = 0 \/ y.sign = 0 THEN z
    ELSE IF z.sign = 0 THEN F64Mul(x, y)
    ELSE F64Sum(x.sign * y.sign, BigMul(x.mant, y.mant), x.exp + y.exp,
                z.sign, z.mant, z.exp, 17)

F64Sub(x, y) == F64Add(x, F64Neg(y))

\* int(x): truncation toward zero, for |x| < 2^31
F64ToInt(x) ==
    IF x.sign = 0 \/ x.exp < -MantBits THEN 0
    ELSE The({x.sign * (m[1] + m[2] * LimbBase + m[3] * LimbBase * LimbBase) :
                 m \in {IF x.exp < 0 THEN BigShr(x.mant, -x.exp, 4)
                        ELSE BigShl(x.mant, x.exp, 4)}})

-----------------------------------------------------------------------------
(* uint64 arithmetic on 64-bit words *)

Zero64 == [i \in 1..HashBits |-> 0]

\* 1 << n
OneShl(n) == [i \in 1..HashBits |-> IF i = HashBits - n THEN 1 ELSE 0]

Or64(x, y)  == [i \in 1..HashBits |-> IF x[i] = 1 \/ y[i] = 1 THEN 1 ELSE 0]
Xor64(x, y) == [i \in 1..HashBits |-> IF x[i] # y[i] THEN 1 ELSE 0]

\* v << 8: the top eight bits leave the word
Shl8(v) == [i \in 1..HashBits |-> IF i + 8 <= HashBits THEN v[i + 8] ELSE 0]

\* uint64(byte)
ByteTo64(byte) ==
    [i \in 1..HashBits |->
        IF i <= HashBits - 8 THEN 0
        ELSE LET k == HashBits - i IN (byte \div (2 ^ k)) % 2]

\* bits.OnesCount64
OnesCount64(x) == SeqSum(x)

-----------------------------------------------------------------------------
(* pkg/hash: AudioPHashFromFeature, median, HexToUint64 *)

HexDigits == <<"0", "1", "2", "3", "4", "5", "6", "7",
               "8", "9", "a", "b", "c", "d", "e", "f">>

\* variant: "%16x", which pads with spaces instead of zeros
SprintfSpacePad(hash) ==
    [k \in 1..HexLen |->
        IF k < HexLen /\ \A j \in 1..(4 * k) : hash[j] = 0
        THEN " "
        ELSE HexDigits[8 * hash[4*k - 3] + 4 * hash[4*k - 2] + 2 * hash[4*k - 1] + hash[4*k] + 1]]

\* fmt.Sprintf("%016x", hash): sixteen lowercase digits, most significant first
Sprintf016x(hash) ==
    [k \in 1..HexLen |->
        HexDigits[8 * hash[4*k - 3] + 4 * hash[4*k - 2] + 2 * hash[4*k - 1] + hash[4*k] + 1]]

\* median of a slice (hash.go); n >= 1
median(arr) ==
    LET n == Len(arr)
        sorted == SortFloat64s(arr)
    IN  IF n % 2 = 0
        THEN (sorted[n \div 2] + sorted[n \div 2 + 1]) \div 2
        ELSE sorted[n \div 2 + 1]

\* feature := make([]float64, 64); copy(feature, globalFeature); zero the rest
PadFeature(gf) ==
    [i \in 1..HashBits |-> IF i <= Len(gf) THEN gf[i] ELSE 0]

\* variant: the comparison ">=" in place of ">"
HashLoopGE(feature, medianVal, i, hash) ==
    [k \in 1..HashBits |-> IF feature[k] >= medianVal THEN 1 ELSE 0]

\* the loop "if val > medianVal { hash |= 1 << uint(63-i) }" over i = 0..63,
\* started at i with the word hash
HashLoop(feature, medianVal, i, hash) ==
    [k \in 1..HashBits |->
        IF \/ hash[k] = 1
           \/ \E j \in i..(HashBits - 1) :
                 feature[j + 1] > medianVal /\ OneShl(HashBits - 1 - j)[k] = 1
        THEN 1 ELSE 0]

AudioPHashFromFeature(gf) ==
    IF Len(gf) = 0 THEN << >>
    ELSE LET feature == PadFeature(gf)
             medianVal == median(feature)
         IN  Sprintf016x(HashLoop(feature, medianVal, 0, Zero64))

\* encoding/hex fromHexChar: the digit's value, or -1 for an invalid byte
FromHexChar(c) ==
    CASE c = "0" -> 0  [] c = "1" -> 1  [] c = "2" -> 2  [] c = "3" -> 3
      [] c = "4" -> 4  [] c = "5" -> 5  [] c = "6" -> 6  [] c = "7" -> 7
      [] c = "8" -> 8  [] c = "9" -> 9
      [] c = "a" -> 10 [] c = "b" -> 11 [] c = "c" -> 12
      [] c = "d" -> 13 [] c = "e" -> 14 [] c = "f" -> 15
      [] c = "A" -> 10 [] c = "B" -> 11 [] c = "C" -> 12
      [] c = "D" -> 13 [] c = "E" -> 14 [] c = "F" -> 15
      [] OTHER -> -1

\* hex.DecodeString: [bytes, err]
HexDecodeString(s) ==
    LET n == Len(s) \div 2
        bad == \E i \in 1..(2 * n) : FromHexChar(s[i]) = -1
    IN  IF bad THEN [bytes |-> << >>, err |-> "hex: invalid byte"]
        ELSE IF Len(s) % 2 = 1 THEN [bytes |-> << >>, err |-> "hex: odd length"]
        ELSE [bytes |-> [k \in 1..n |-> 16 * FromHexChar(s[2*k - 1]) + FromHexChar(s[2*k])],
              err |-> NoErr]

\* the loop "v = (v << 8) | uint64(b[i])" over i = 0..7
RECURSIVE BytesTo64(_, _, _)
BytesTo64(bytes, i, v) ==
    IF i > 7 THEN v
    ELSE BytesTo64(bytes, i + 1, Or64(Shl8(v), ByteTo64(bytes[i + 1])))

\* variant: no length check, decode errors dropped
HexToUint64Lax(hexStr) ==
    LET d == HexDecodeString(hexStr)
    IN  IF d.err # NoErr \/ Len(d.bytes) < 8 THEN [v |-> Zero64, err |-> NoErr]
        ELSE [v |-> BytesTo64(d.bytes, 0, Zero64), err |-> NoErr]

HexToUint64(hexStr) ==
    IF Len(hexStr) # HexLen THEN [v |-> Zero64, err |-> "hex must be 16 chars"]
    ELSE LET d == HexDecodeString(hexStr)
         IN  IF d.err # NoErr THEN [v |-> Zero64, err |-> d.err]
             ELSE [v |-> BytesTo64(d.bytes, 0, Zero64), err |-> NoErr]

-----------------------------------------------------------------------------
(* tests helpers: HammingDistance, HammingPercent *)

\* variant: OR in place of XOR
HammingDistanceOr(h1, h2) == OnesCount64(Or64(h1, h2))

HammingDistance(h1, h2) == OnesCount64(Xor64(h1, h2))

\* float64(d) / 64.0 * 100.0, kept as the fraction num/den
HammingPercent(h1, h2) == [num |-> HammingDistance(h1, h2) * 100, den |-> HashBits]

-----------------------------------------------------------------------------
(* pkg/config: Config, DefaultConfig, ValidateAndFill, isPowerOfTwo *)

DefaultSampleRate == 44100
defaultFrame == 2048
defaultBins == 64

\* a Config value; isNil marks the nil *Config a caller may pass
Config(s, f, h, n) ==
    [isNil |-> FALSE, SampleRate |-> s, FrameSize |-> f, Hop |-> h, NumBins |-> n]

DefaultConfig(rate) ==
    Config(IF rate <= 0 THEN DefaultSampleRate ELSE rate,
           defaultFrame, defaultFrame \div 2, defaultBins)

\* x & y on non-negative integers
RECURSIVE BitAnd(_, _)
BitAnd(x, y) ==
    IF x = 0 \/ y = 0 THEN 0
    ELSE (x % 2) * (y % 2) + 2 * BitAnd(x \div 2, y \div 2)

isPowerOfTwo(x) == x > 0 /\ BitAnd(x, x - 1) = 0

\* variant: only zero fields are filled, and NumBins is filled and checked
ValidateAndFillStrict(c) ==
    LET c1 == IF c.FrameSize = 0 THEN [c EXCEPT !.FrameSize = defaultFrame] ELSE c
        c2 == IF c1.Hop = 0 THEN [c1 EXCEPT !.Hop = c1.FrameSize \div 2] ELSE c1
        c3 == IF c2.NumBins = 0 THEN [c2 EXCEPT !.NumBins = defaultBins] ELSE c2
    IN  IF c.SampleRate <= 0 THEN [cfg |-> c, err |-> "sample rate must be > 0"]
        ELSE IF c3.Hop <= 0 \/ c3.Hop > c3.FrameSize
             THEN [cfg |-> c3, err |-> "invalid hop: must be 1..FrameSize"]
        ELSE IF ~isPowerOfTwo(c3.FrameSize)
             THEN [cfg |-> c3, err |-> "frameSize must be a power of two"]
        ELSE IF c3.NumBins < 1 \/ c3.NumBins > c3.FrameSize \div 2
             THEN [cfg |-> c3, err |-> "invalid numBins"]
        ELSE [cfg |-> c3, err |-> NoErr]

\* (c *Config) ValidateAndFill: the config as left in place, and the error
ValidateAndFill(c) ==
    IF c.SampleRate <= 0 THEN [cfg |-> c, err |-> "sample rate must be > 0"]
    ELSE LET c1 == IF c.FrameSize <= 0 THEN [c EXCEPT !.FrameSize = 2048] ELSE c
             c2 == IF c1.Hop <= 0 THEN [c1 EXCEPT !.Hop = c1.FrameSize \div 2] ELSE c1
         IN  IF c2.Hop <= 0 \/ c2.Hop > c2.FrameSize
             THEN [cfg |-> c2, err |-> "invalid hop: must be 1..FrameSize"]
             ELSE IF ~isPowerOfTwo(c2.FrameSize)
             THEN [cfg |-> c2, err |-> "frameSize must be a power of two"]
             ELSE [cfg |-> c2, err |-> NoErr]

-----------------------------------------------------------------------------
(* pkg/audio: sample sequences and Frame *)
(*                                                                         *)
(* A []float64 of samples is a sequence of float64 values. *)

\* a nil or empty []float64
NoSamples == << >>

F64One == F64Pow2(0)

\* Go's integer division, which truncates toward zero
GoDiv(x, y) ==
    IF (x >= 0) = (y > 0) THEN (IF x >= 0 THEN x ELSE -x) \div (IF y > 0 THEN y ELSE -y)
    ELSE -((IF x >= 0 THEN x ELSE -x) \div (IF y > 0 THEN y ELSE -y))

\* numFrames := 1 + (len(samples)-frameSize)/hop; if numFrames < 1 { numFrames = 0 }
numFrames(n, frameSize, hop) ==
    LET c == 1 + GoDiv(n - frameSize, hop) IN IF c < 1 THEN 0 ELSE c

\* window[i] = 0.5 * (1 - cos(2*pi*i/(frameSize-1))), kept symbolic
Hann(i, frameSize) == [i |-> i, N |-> frameSize]

\* frame[i] = samples[start+i] * window[i]: the sample and the window entry
\* it is multiplied by
OneFrame(nums, start, frameSize) ==
    [k \in 1..frameSize |-> [x |-> nums[start + k], w |-> Hann(k - 1, frameSize)]]

\* variant: "start+frameSize < len(samples)"
FrameLoopLT(nums, frameSize, hop, start, acc) ==
    LET turns == Cardinality({k \in 0..Len(nums) :
                                 start + k * hop + frameSize < Len(nums)})
    IN  acc \o [k \in 1..turns |-> OneFrame(nums, start + (k - 1) * hop, frameSize)]

\* for start := 0; start+frameSize <= len(samples); start += hop
\* (hop > 0: the loop runs for k = 0, 1, .. while the condition holds)
FrameLoop(nums, frameSize, hop, start, acc) ==
    LET turns == Cardinality({k \in 0..Len(nums) :
                                 start + k * hop + frameSize <= Len(nums)})
    IN  acc \o [k \in 1..turns |-> OneFrame(nums, start + (k - 1) * hop, frameSize)]

\* variant: a sequence shorter than one frame is zero-padded to one frame
FramePadShort(s, frameSize, hop) ==
    IF frameSize <= 0 \/ hop <= 0 \/ hop > frameSize THEN << >>
    ELSE IF Len(s) < frameSize
    THEN << [k \in 1..frameSize |->
                [x |-> IF k <= Len(s) THEN s[k] ELSE F64Zero,
                 w |-> Hann(k - 1, frameSize)]] >>
    ELSE FrameLoop(s, frameSize, hop, 0, << >>)

\* audio.Frame; a nil result and an empty one are both << >>
Frame(s, frameSize, hop) ==
    IF frameSize <= 0 \/ hop <= 0 \/ hop > frameSize THEN << >>
    ELSE FrameLoop(s, frameSize, hop, 0, << >>)

-----------------------------------------------------------------------------
(* pkg/audio: DecodePCM16LEToFloat64 and DecodeWAVToFloat64 *)
(*                                                                         *)
(* Bytes are integers 0..255. A decoder returns the record                 *)
(* [samples, sr, err, panic]; panic marks a run-time panic of the Go code. *)

Decoded(s, rate, e) == [samples |-> s, sr |-> rate, err |-> e, panic |-> FALSE]
Panicked(why) == [samples |-> NoSamples, sr |-> 0, err |-> why, panic |-> TRUE]

\* int16(binary.LittleEndian.Uint16(..)): two's complement
Int16LE(b0, b1) ==
    LET u == b0 + 256 * b1 IN IF u >= 32768 THEN u - 65536 ELSE u

\* variant: the 24-bit value is not sign-extended
Int24LEUnsigned(b0, b1, b2) == b0 + 256 * b1 + 65536 * b2

\* the 24-bit case: raw := b0 | b1<<8 | b2<<16, sign-extended from bit 23
Int24LE(b0, b1, b2) ==
    LET u == b0 + 256 * b1 + 65536 * b2 IN IF b2 >= 128 THEN u - 16777216 ELSE u

\* int32 little-endian, two's complement
Int32LE(b0, b1, b2, b3) ==
    b0 + 256 * b1 + 65536 * b2 + 16777216 * (IF b3 >= 128 THEN b3 - 256 ELSE b3)

Uint16LE(bs) == bs[1] + 256 * bs[2]
Uint32LE(bs) == bs[1] + 256 * bs[2] + 65536 * bs[3] + 16777216 * bs[4]

DecodePCM16LEToFloat64(bs) ==
    IF Len(bs) = 0 THEN Decoded(NoSamples, 0, "input byte slice is empty")
    ELSE IF Len(bs) % 2 # 0
    THEN Decoded(NoSamples, 0, "byte length is not multiple of 2, invalid PCM16LE")
    ELSE Decoded([i \in 1..(Len(bs) \div 2) |->
                     F64Div(F64FromInt(Int16LE(bs[2*i - 1], bs[2*i])), F64FromInt(32768))],
                 0, NoErr)

\* binary.Read of k bytes from a bytes.Reader at offset pos: io.EOF when no
\* byte is left, io.ErrUnexpectedEOF when fewer than k are
BinaryRead(bs, pos, k) ==
    IF pos + k <= Len(bs)
    THEN [err |-> NoErr, bytes |-> SubSeq(bs, pos + 1, pos + k), pos |-> pos + k]
    ELSE [err |-> IF pos >= Len(bs) THEN "EOF" ELSE "unexpected EOF",
          bytes |-> << >>, pos |-> Len(bs)]

\* (*bytes.Reader).Read into a zeroed buffer of k bytes: io.EOF when no byte
\* is left; otherwise the bytes that are left are copied, with a nil error
ReaderRead(bs, pos, k) ==
    IF pos >= Len(bs) THEN [err |-> "EOF", bytes |-> [i \in 1..k |-> 0], pos |-> pos]
    ELSE LET n == Min(k, Len(bs) - pos)
         IN  [err |-> NoErr,
              bytes |-> [i \in 1..k |-> IF i <= n THEN bs[pos + i] ELSE 0],
              pos |-> pos + n]

TagRIFF == <<82, 73, 70, 70>>
TagWAVE == <<87, 65, 86, 69>>
TagFmt  == <<102, 109, 116, 32>>
TagData == <<100, 97, 116, 97>>

\* variant: the bytes of a "fmt " chunk beyond the sixteenth are not skipped
ReadFmtNoSkip(bs, pos, chunkSize) ==
    LET body == BinaryRead(bs, pos, 16)
        first(k) == BinaryRead(bs, pos, k)
    IN  IF body.err # NoErr
        THEN \* the read that meets the end of the buffer reports it
             LET cut == CHOOSE k \in {2, 4, 8, 12, 14, 16} :
                            /\ first(k).err # NoErr
                            /\ \A j \in {2, 4, 8, 12, 14, 16} : j < k => first(j).err = NoErr
                 at == CHOOSE j \in {0, 2, 4, 8, 12, 14} :
                            j < cut /\ \A i \in {0, 2, 4, 8, 12, 14} : i < cut => i <= j
             IN  [err |-> BinaryRead(bs, pos + at, cut - at).err]
        ELSE LET f == body.bytes
                 audioFormat == Uint16LE(SubSeq(f, 1, 2))
                 bitsPerSample == Uint16LE(SubSeq(f, 15, 16))
             IN  IF audioFormat # 1 THEN [err |-> "only PCM format supported"]
                 ELSE IF bitsPerSample # 16 /\ bitsPerSample # 24 /\ bitsPerSample # 32
                 THEN [err |-> "only 16, 24, or 32-bit WAV supported"]
                 ELSE [err |-> NoErr,
                       numChannels |-> Uint16LE(SubSeq(f, 3, 4)),
                       sampleRate |-> Uint32LE(SubSeq(f, 5, 8)),
                       bitsPerSample |-> bitsPerSample,
                       pos |-> body.pos]

\* the body of a "fmt " chunk of the declared size, read at offset pos:
\* six fields, the two checks, then the skip of the extension bytes.
\* r.Seek past the end of the buffer is no error.
ReadFmt(bs, pos, chunkSize) ==
    LET body == BinaryRead(bs, pos, 16)
        first(k) == BinaryRead(bs, pos, k)
    IN  IF body.err # NoErr
        THEN \* the read that meets the end of the buffer reports it
             LET cut == CHOOSE k \in {2, 4, 8, 12, 14, 16} :
                            /\ first(k).err # NoErr
                            /\ \A j \in {2, 4, 8, 12, 14, 16} : j < k => first(j).err = NoErr
                 at == CHOOSE j \in {0, 2, 4, 8, 12, 14} :
                            j < cut /\ \A i \in {0, 2, 4, 8, 12, 14} : i < cut => i <= j
             IN  [err |-> BinaryRead(bs, pos + at, cut - at).err]
        ELSE LET f == body.bytes
                 audioFormat == Uint16LE(SubSeq(f, 1, 2))
                 bitsPerSample == Uint16LE(SubSeq(f, 15, 16))
             IN  IF audioFormat # 1 THEN [err |-> "only PCM format supported"]
                 ELSE IF bitsPerSample # 16 /\ bitsPerSample # 24 /\ bitsPerSample # 32
                 THEN [err |-> "only 16, 24, or 32-bit WAV supported"]
                 ELSE [err |-> NoErr,
                       numChannels |-> Uint16LE(SubSeq(f, 3, 4)),
                       sampleRate |-> Uint32LE(SubSeq(f, 5, 8)),
                       bitsPerSample |-> bitsPerSample,
                       pos |-> body.pos + Max(chunkSize - 16, 0)]

\* the first loop: chunk headers are read until a "fmt " chunk is met;
\* any other chunk is skipped by its declared size
RECURSIVE ScanFmt(_, _)
ScanFmt(bs, pos) ==
    LET hdr == BinaryRead(bs, pos, 4)
        sz == BinaryRead(bs, hdr.pos, 4)
    IN  IF hdr.err # NoErr THEN [err |-> hdr.err]
        ELSE IF sz.err # NoErr THEN [err |-> sz.err]
        ELSE IF hdr.bytes = TagFmt THEN ReadFmt(bs, sz.pos, Uint32LE(sz.bytes))
        ELSE ScanFmt(bs, sz.pos + Uint32LE(sz.bytes))

\* the second loop: chunk headers are read until a "data" chunk is met
RECURSIVE ScanData(_, _)
ScanData(bs, pos) ==
    LET hdr == BinaryRead(bs, pos, 4)
        sz == BinaryRead(bs, hdr.pos, 4)
    IN  IF hdr.err # NoErr THEN [err |-> hdr.err]
        ELSE IF sz.err # NoErr THEN [err |-> sz.err]
        ELSE IF hdr.bytes = TagData
        THEN [err |-> NoErr, dataSize |-> Uint32LE(sz.bytes), pos |-> sz.pos]
        ELSE ScanData(bs, sz.pos + Uint32LE(sz.bytes))

\* one channel value read at pos: [err, raw, pos]
ReadChannel(bs, pos, bitsPerSample) ==
    IF bitsPerSample = 16
    THEN LET r == BinaryRead(bs, pos, 2)
         IN  IF r.err # NoErr THEN [err |-> r.err, raw |-> 0, pos |-> r.pos]
             ELSE [err |-> NoErr, raw |-> Int16LE(r.bytes[1], r.bytes[2]), pos |-> r.pos]
    ELSE IF bitsPerSample = 24
    THEN LET r == ReaderRead(bs, pos, 3)
         IN  IF r.err # NoErr THEN [err |-> r.err, raw |-> 0, pos |-> r.pos]
             ELSE [err |-> NoErr, raw |-> Int24LE(r.bytes[1], r.bytes[2], r.bytes[3]),
                   pos |-> r.pos]
    ELSE LET r == BinaryRead(bs, pos, 4)
         IN  IF r.err # NoErr THEN [err |-> r.err, raw |-> 0, pos |-> r.pos]
             ELSE [err |-> NoErr,
                   raw |-> Int32LE(r.bytes[1], r.bytes[2], r.bytes[3], r.bytes[4]),
                   pos |-> r.pos]

\* the divisors 32768.0, 8388608.0 and 2147483648.0
FullScale(bitsPerSample) == F64Pow2(bitsPerSample - 1)

\* the sample loop from sample i on: val = float64(raw) / full scale,
\* sum += val over the channels, samples[i] = sum / float64(numChannels)
RECURSIVE ReadSamples(_, _, _, _, _, _, _, _)
ReadSamples(bs, pos, i, numSamples, ch, sum, fm, acc) ==
    IF i >= numSamples THEN [err |-> NoErr, nums |-> acc]
    ELSE IF ch >= fm.numChannels
    THEN ReadSamples(bs, pos, i + 1, numSamples, 0, F64Zero, fm,
                     Append(acc, F64Div(sum, F64FromInt(fm.numChannels))))
    ELSE LET r == ReadChannel(bs, pos, fm.bitsPerSample)
         IN  IF r.err # NoErr THEN [err |-> r.err, nums |-> << >>]
             ELSE ReadSamples(bs, r.pos, i, numSamples, ch + 1,
                              F64Add(sum, F64Div(F64FromInt(r.raw),
                                                 FullScale(fm.bitsPerSample))),
                              fm, acc)

\* the part of DecodeWAVToFloat64 after the two scans: the count of
\* sample frames, then the sample loop
DecodeData(bs, fm, dc) ==
    IF fm.numChannels = 0
    THEN Panicked("integer divide by zero")
    ELSE The({IF rd.err # NoErr THEN Decoded(NoSamples, 0, rd.err)
              ELSE Decoded(rd.nums, fm.sampleRate, NoErr) :
              rd \in {ReadSamples(bs, dc.pos, 0,
                                  (dc.dataSize \div (fm.bitsPerSample \div 8))
                                      \div fm.numChannels,
                                  0, F64Zero, fm, << >>)}})

DecodeWAVToFloat64(bs) ==
    IF Len(bs) < 44 THEN Decoded(NoSamples, 0, "WAV too short to contain header")
    ELSE IF SubSeq(bs, 1, 4) # TagRIFF THEN Decoded(NoSamples, 0, "not a RIFF file")
    ELSE IF SubSeq(bs, 9, 12) # TagWAVE THEN Decoded(NoSamples, 0, "not a WAVE file")
    ELSE The({IF fm.err # NoErr THEN Decoded(NoSamples, 0, fm.err)
              ELSE The({IF dc.err # NoErr THEN Decoded(NoSamples, 0, dc.err)
                        ELSE DecodeData(bs, fm, dc) :
                        dc \in {ScanData(bs, fm.pos)}}) :
              fm \in {ScanFmt(bs, 12)}})

-----------------------------------------------------------------------------
(* pkg/audio: Resample and Normalize *)

\* How the build evaluates x*y + z*w: each product rounded ("none"), or one
\* product fused into the addition (the Go specification allows an
\* implementation to fuse; amd64 does not, arm64 does).
FmaChoices == {"none", "first", "second"}

\* samples[idx]*(1-frac) + samples[idx+1]*frac
Interpolate(x0, x1, frac, fuse) ==
    LET w0 == F64Sub(F64One, frac)
    IN  CASE fuse = "none" -> F64Add(F64Mul(x0, w0), F64Mul(x1, frac))
          [] fuse = "first" -> F64Fma(x0, w0, F64Mul(x1, frac))
          [] fuse = "second" -> F64Fma(x1, frac, F64Mul(x0, w0))

\* floor(n * toHz / fromHz) in exact arithmetic
ResampleLenExact(n, fromRate, toRate) == (n * toRate) \div fromRate

\* ratio := float64(toHz) / float64(fromHz)
ResampleRatio(fromRate, toRate) == F64Div(F64FromInt(toRate), F64FromInt(fromRate))

\* newLen := int(float64(len(samples)) * ratio)
ResampleLen(n, fromRate, toRate) ==
    F64ToInt(F64Mul(F64FromInt(n), ResampleRatio(fromRate, toRate)))

\* out[i] of the loop of Resample: pos := float64(i) / ratio; idx := int(pos);
\* frac := pos - float64(idx)
ResampleAt(s, ratio, i, fuse) ==
    The({The({IF idx + 1 < Len(s)
              THEN Interpolate(s[idx + 1], s[idx + 2], F64Sub(pos, F64FromInt(idx)), fuse)
              ELSE s[Len(s)] :
              idx \in {F64ToInt(pos)}}) :
         pos \in {F64Div(F64FromInt(i), ratio)}})

\* the loop of Resample over the newLen entries of out
ResampleLoop(s, ratio, newLen, fuse) ==
    [k \in 1..newLen |-> ResampleAt(s, ratio, k - 1, fuse)]

\* variant: the equal-rate branch returns its argument instead of a copy
ResampleNoCopy(s, fromRate, toRate, fuse) ==
    IF fromRate <= 0 \/ toRate <= 0
    THEN [samples |-> NoSamples, err |-> "invalid sample rate", fresh |-> TRUE]
    ELSE IF Len(s) = 0
    THEN [samples |-> NoSamples, err |-> "no samples to resample", fresh |-> TRUE]
    ELSE IF fromRate = toRate
    THEN [samples |-> s, err |-> NoErr, fresh |-> FALSE]
    ELSE [samples |-> ResampleLoop(s, ResampleRatio(fromRate, toRate),
                                   ResampleLen(Len(s), fromRate, toRate), fuse),
          err |-> NoErr, fresh |-> TRUE]

\* audio.Resample: [samples, err, fresh]; fresh tells that the result is a
\* newly made slice (nil included), which shares no memory with the input
Resample(s, fromRate, toRate, fuse) ==
    IF fromRate <= 0 \/ toRate <= 0
    THEN [samples |-> NoSamples, err |-> "invalid sample rate", fresh |-> TRUE]
    ELSE IF Len(s) = 0
    THEN [samples |-> NoSamples, err |-> "no samples to resample", fresh |-> TRUE]
    ELSE IF fromRate = toRate
    THEN \* out := make([]float64, len(samples)); copy(out, samples)
         [samples |-> [i \in 1..Len(s) |-> s[i]], err |-> NoErr, fresh |-> TRUE]
    ELSE [samples |-> ResampleLoop(s, ResampleRatio(fromRate, toRate),
                                   ResampleLen(Len(s), fromRate, toRate), fuse),
          err |-> NoErr, fresh |-> TRUE]

\* the loop "if a := math.Abs(s); a > maxAmp { maxAmp = a }" from maxAmp = 0
MaxAbs(nums) ==
    IF nums = << >> THEN F64Zero
    ELSE The({CHOOSE m \in mags : \A o \in mags : ~F64Less(m, o) :
                 mags \in {{F64Abs(nums[i]) : i \in 1..Len(nums)}}})

\* variant: every sample divided by maxAmp
NormalizeByDivision(s) ==
    IF Len(s) = 0 THEN s
    ELSE IF MaxAbs(s) = F64Zero THEN s
    ELSE [i \in 1..Len(s) |-> F64Div(s[i], MaxAbs(s))]

\* the loop "normalized[i] = s * scale"
Scale(s, scale) == [i \in 1..Len(s) |-> F64Mul(s[i], scale)]

\* audio.Normalize: scale := 1.0 / maxAmp; normalized[i] = s * scale
Normalize(s) ==
    IF Len(s) = 0 THEN s
    ELSE IF MaxAbs(s) = F64Zero THEN s
    ELSE Scale(s, F64Div(F64One, MaxAbs(s)))

-----------------------------------------------------------------------------
(* pkg/fft and pkg/features *)

\* magnitudes are 0, 4, .., 4*MaxMagLevel
MagVals == {4 * k : k \in 0..MaxMagLevel}

\* fft.ComputeMagnitude(frame): nil for an empty frame, else N/2 magnitudes.
\* The transform is gonum's; the magnitudes it returns are any non-negative
\* values, here the spectrum repeating the pattern pat of two values.
ComputeMagnitude(frame, pat) ==
    IF Len(frame) = 0 THEN << >>
    ELSE [k \in 1..(Len(frame) \div 2) |-> pat[((k - 1) % 2) + 1]]

MagPatterns == [1..2 -> MagVals]

\* median of a float64 slice (features)
featuresMedian(arr) == IF Len(arr) = 0 THEN 0 ELSE median(arr)

\* variant: numBins is not clamped to the bins of the first frame
AggregateNoClamp(mags, numBins) ==
    IF Len(mags) = 0 \/ numBins <= 0 THEN << >>
    ELSE [k \in 1..numBins |->
             IF k <= Len(mags[1])
             THEN featuresMedian([i \in 1..Len(mags) |-> mags[i][k]]) ELSE 0]

\* features.AggregateGlobalFeatureMedian
AggregateGlobalFeatureMedian(mags, numBins) ==
    IF Len(mags) = 0 \/ numBins <= 0 THEN << >>
    ELSE LET nb == IF numBins > Len(mags[1]) THEN Len(mags[1]) ELSE numBins
         IN  [k \in 1..nb |-> featuresMedian([i \in 1..Len(mags) |-> mags[i][k]])]

\* 1000 * ln(1 + v) for v = 0, 2, 4, .., rounded to an even number
LnTable == <<0, 1098, 1610, 1946, 2198, 2398, 2564, 2708, 2834, 2944, 3044>>

\* features.LogScaleFeature: feature[i] = math.Log(1 + feature[i])
LogScaleFeature(feature) ==
    [i \in 1..Len(feature) |-> LnTable[feature[i] \div 2 + 1]]

-----------------------------------------------------------------------------
(* Values at rest: what a variable holds while its operation is not running *)

IdleCfg == [isNil |-> TRUE, SampleRate |-> 0, FrameSize |-> 0, Hop |-> 0, NumBins |-> 0]

IdlePipe ==
    /\ b = << >>
    /\ cfg = IdleCfg
    /\ fileformat = None
    /\ localCfg = IdleCfg
    /\ samples = NoSamples
    /\ sr = 0
    /\ frames = << >>
    /\ frameMags = << >>
    /\ calls = << >>

IdleOut == [samples |-> << >>, err |-> "nil", fresh |-> TRUE]

IdleWav == [ch |-> 0, bits |-> 0, rate |-> 0, nf |-> 0, m |-> "none", cut |-> 0]

IdleCall ==
    /\ given = << >>
    /\ fromHz = 0
    /\ toHz = 0
    /\ out = IdleOut
    /\ op = None
    /\ wav = IdleWav
    /\ factor = 0

IdleDist == [ab |-> 0, ba |-> 0, bc |-> 0, ac |-> 0, aa |-> 0,
             pct |-> [num |-> 0, den |-> 1]]

-----------------------------------------------------------------------------
(* The fingerprint generator and comparator as called by a client:         *)
(*   a feature vector is hashed and the fingerprint decoded;               *)
(*   a 64-bit value is rendered and decoded;                               *)
(*   a string is decoded;                                                  *)
(*   three fingerprints are compared.                                      *)

FeatVals == {2 * k : k \in 0..MaxFeatLevel}

FeatLens == (0..MaxShortLen)
            \cup ((HashBits \div 2 - 1)..(HashBits \div 2 + 1))
            \cup ((HashBits - 1)..(HashBits + MaxOverLen))

\* the vector of length n repeating the pattern pat
Repeat(pat, n) == [i \in 1..n |-> pat[((i - 1) % Len(pat)) + 1]]

FeatureInputs ==
    {Repeat(pat, n) : pat \in [1..PatLen -> FeatVals], n \in FeatLens}

FromNibbles(ds) ==
    [i \in 1..HashBits |->
        LET d == ds[(i - 1) \div 4 + 1]
            k == 3 - ((i - 1) % 4)
        IN  (d \div (2 ^ k)) % 2]

U64Inputs ==
    {FromNibbles([k \in 1..HexLen |-> IF k = pos THEN d ELSE fill]) :
        fill \in {0, 10, 15}, pos \in {1, HexLen \div 2, HexLen}, d \in 0..15}

HamInputs ==
    {Zero64} \cup
    {[i \in 1..HashBits |-> IF i % m = r THEN 1 ELSE 0] : m \in 1..MaxMod, r \in 0..(MaxMod - 1)}

StrAlphabet == {"0", "9", "a", "f", "A", "F", "g", "G", "x", " ", "-"}

StrLens == {0, 2 * HexLen} \cup ((HexLen - MaxStrDelta)..(HexLen + MaxStrDelta))

StrInputs ==
    {[k \in 1..n |-> IF k = pos THEN c ELSE fill] :
        n \in StrLens, fill \in {"0", "f", "A"}, pos \in {1, HexLen \div 2, HexLen}, c \in StrAlphabet}

NoWords == << >>

InitFingerprint ==
    /\ IdlePipe
    /\ IdleCall
    /\ err = NoErr
    /\ u64 = << >>
    /\ dist = IdleDist
    /\ \/ /\ pc = "hash"
          /\ globalFeature \in FeatureInputs
          /\ hashHex = << >>
          /\ x64 = << >>
          /\ hs = NoWords
       \/ /\ pc = "format"
          /\ x64 \in U64Inputs
          /\ globalFeature = << >>
          /\ hashHex = << >>
          /\ hs = NoWords
       \/ /\ pc = "parse"
          /\ hashHex \in StrInputs
          /\ globalFeature = << >>
          /\ x64 = << >>
          /\ hs = NoWords
       \/ /\ pc = "compare"
          /\ hs \in HamInputs \X HamInputs \X HamInputs
          /\ globalFeature = << >>
          /\ hashHex = << >>
          /\ x64 = << >>

\* hashHex := hash.AudioPHashFromFeature(globalFeature)
HashCall ==
    /\ pc = "hash"
    /\ hashHex' = AudioPHashFromFeature(globalFeature)
    /\ pc' = "hashed"
    /\ UNCHANGED <<pipeVars, cmpVars, callVars, globalFeature, err>>

\* u, err := HexToUint64(h) on a fingerprint the generator returned
DecodeHashCall ==
    /\ pc = "hashed"
    /\ hashHex # << >>
    /\ LET r == HexToUint64(hashHex)
       IN  u64' = r.v /\ err' = r.err
    /\ pc' = "decoded"
    /\ UNCHANGED <<pipeVars, callVars, x64, hs, dist, globalFeature, hashHex>>

\* fmt.Sprintf("%016x", x)
FormatCall ==
    /\ pc = "format"
    /\ hashHex' = Sprintf016x(x64)
    /\ pc' = "formatted"
    /\ UNCHANGED <<pipeVars, cmpVars, callVars, globalFeature, err>>

\* HexToUint64 on the rendering of x
DecodeFormattedCall ==
    /\ pc = "formatted"
    /\ LET r == HexToUint64(hashHex)
       IN  u64' = r.v /\ err' = r.err
    /\ pc' = "roundtrip"
    /\ UNCHANGED <<pipeVars, callVars, x64, hs, dist, globalFeature, hashHex>>

\* HexToUint64 on any string
ParseCall ==
    /\ pc = "parse"
    /\ LET r == HexToUint64(hashHex)
       IN  u64' = r.v /\ err' = r.err
    /\ pc' = "parsed"
    /\ UNCHANGED <<pipeVars, callVars, x64, hs, dist, globalFeature, hashHex>>

\* HammingDistance / HammingPercent on the pairs of three fingerprints
CompareCall ==
    /\ pc = "compare"
    /\ dist' = [ab |-> HammingDistance(hs[1], hs[2]),
                ba |-> HammingDistance(hs[2], hs[1]),
                bc |-> HammingDistance(hs[2], hs[3]),
                ac |-> HammingDistance(hs[1], hs[3]),
                aa |-> HammingDistance(hs[1], hs[1]),
                pct |-> HammingPercent(hs[1], hs[2])]
    /\ pc' = "compared"
    /\ UNCHANGED <<pipeVars, callVars, x64, u64, hs, globalFeature, hashHex, err>>

NextFingerprint ==
    \/ HashCall
    \/ DecodeHashCall
    \/ FormatCall
    \/ DecodeFormattedCall
    \/ ParseCall
    \/ CompareCall

SpecFingerprint == InitFingerprint /\ [][NextFingerprint]_vars

-----------------------------------------------------------------------------
(* Properties of the fingerprint generator and comparator *)

Range(s) == {s[i] : i \in DOMAIN s}

\* the k-th smallest entry of p, by counting
KthSmallest(p, k) ==
    CHOOSE x \in Range(p) :
        /\ Cardinality({i \in DOMAIN p : p[i] < x}) < k
        /\ k <= Cardinality({i \in DOMAIN p : p[i] <= x})

\* v right-padded with zeros, or cut, to 64 entries
PaddedVector(v) == [i \in 1..HashBits |-> IF i <= Len(v) THEN v[i] ELSE 0]

\* twice the median of the padded vector
TwiceMedian(p) == KthSmallest(p, HashBits \div 2) + KthSmallest(p, HashBits \div 2 + 1)

ExpectedBits(v) ==
    LET p == PaddedVector(v)
        m2 == TwiceMedian(p)
    IN  [i \in 1..HashBits |-> IF 2 * p[i] > m2 THEN 1 ELSE 0]

LowerHexChars == {HexDigits[k] : k \in 1..16}
AnyHexChars == LowerHexChars \cup {"A", "B", "C", "D", "E", "F"}

\* the value a string of sixteen lowercase digits denotes, by position
DigitValue(c) == CHOOSE k \in 0..15 : HexDigits[k + 1] = c
Denotes(s, x) ==
    /\ Len(s) = HexLen
    /\ \A k \in 1..HexLen : s[k] \in LowerHexChars
    /\ \A k \in 1..HexLen :
          DigitValue(s[k]) = 8 * x[4*k - 3] + 4 * x[4*k - 2] + 2 * x[4*k - 1] + x[4*k]

DiffBits(x, y) == {i \in 1..HashBits : x[i] # y[i]}

\* C3: HammingDistance is the number of differing bits, lies in 0..64 (the
\* percentage in 0..100), is 0 on equal arguments, symmetric, and satisfies
\* the triangle inequality.
C3_HammingIsMetric ==
    pc = "compared" =>
        /\ dist.ab = Cardinality(DiffBits(hs[1], hs[2]))
        /\ dist.bc = Cardinality(DiffBits(hs[2], hs[3]))
        /\ dist.ac = Cardinality(DiffBits(hs[1], hs[3]))
        /\ dist.ab \in 0..HashBits
        /\ dist.pct.num >= 0 /\ dist.pct.num <= 100 * dist.pct.den
        /\ dist.pct.num * HashBits = dist.ab * 100 * dist.pct.den
        /\ dist.aa = 0
        /\ dist.ab = dist.ba
        /\ dist.ac <= dist.ab + dist.bc

\* three pairwise different fingerprints, none all-zero, have been compared
C3_Witness ==
    /\ pc = "compared"
    /\ hs[1] # hs[2] /\ hs[2] # hs[3] /\ hs[1] # hs[3]
    /\ \A k \in 1..3 : hs[k] # Zero64
    /\ dist.ac < dist.ab + dist.bc

\* C4: rendering a 64-bit value as sixteen zero-padded lowercase digits and
\* decoding the string with HexToUint64 gives the value back with a nil
\* error; every fingerprint the generator returns decodes with a nil error.
C4_HexRoundTrip ==
    /\ pc = "roundtrip" =>
          /\ Len(hashHex) = HexLen
          /\ \A k \in 1..HexLen : hashHex[k] \in LowerHexChars
          /\ err = NoErr
          /\ u64 = x64
    /\ pc = "decoded" => err = NoErr

\* a value with a zero leading digit and a non-zero one has made the round trip
C4_Witness ==
    /\ pc = "roundtrip"
    /\ hashHex[1] = "0"
    /\ hashHex[HexLen] # "0"
    /\ x64 # Zero64

\* C5: HexToUint64 returns an error and the value 0 for every string whose
\* length is not 16 and for every 16-character string with a character that
\* is no hexadecimal digit; it returns a nil error only for sixteen
\* hexadecimal digits.
C5_HexDecodeStrict ==
    pc = "parsed" =>
        /\ err = NoErr <=> (Len(hashHex) = HexLen /\ \A k \in 1..HexLen : hashHex[k] \in AnyHexChars)
        /\ err # NoErr => u64 = Zero64

\* a 16-character string with one invalid character has been refused, its
\* other characters being digits
C5_Witness ==
    /\ pc = "parsed"
    /\ Len(hashHex) = HexLen
    /\ Cardinality({k \in 1..HexLen : hashHex[k] \notin AnyHexChars}) = 1
    /\ err # NoErr

-----------------------------------------------------------------------------
(* The configuration as a client builds and validates it:                  *)
(*   cfg := config.DefaultConfig(sr); cfg.ValidateAndFill()                *)
(*   or ValidateAndFill on a Config literal.                               *)

CfgSampleRates == (-1..1) \cup {DefaultSampleRate}
CfgFrameSizes  == (-1..MaxCfgVal) \cup {defaultFrame}
CfgHops        == (-1..MaxCfgVal) \cup {defaultFrame \div 2, defaultFrame + 1}
CfgNumBins     == (-1..MaxCfgVal) \cup {defaultBins, defaultFrame \div 2 + 1}

CfgInputs ==
    {Config(s, f, h, n) : s \in CfgSampleRates, f \in CfgFrameSizes,
                          h \in CfgHops, n \in CfgNumBins}

IdleRest ==
    /\ b = << >>
    /\ fileformat = None
    /\ samples = NoSamples
    /\ frames = << >>
    /\ frameMags = << >>
    /\ calls = << >>
    /\ globalFeature = << >>
    /\ hashHex = << >>
    /\ x64 = << >>
    /\ u64 = << >>
    /\ hs = << >>
    /\ dist = IdleDist

InitCfg ==
    /\ IdleRest
    /\ IdleCall
    /\ err = NoErr
    /\ \/ /\ pc = "default"
          /\ sr \in CfgSampleRates
          /\ cfg = IdleCfg
          /\ localCfg = IdleCfg
       \/ /\ pc = "validate"
          /\ sr = 0
          /\ cfg \in CfgInputs
          /\ localCfg = cfg

\* cfg := config.DefaultConfig(sr)
DefaultConfigCall ==
    /\ pc = "default"
    /\ cfg' = DefaultConfig(sr)
    /\ localCfg' = cfg'
    /\ pc' = "validate"
    /\ UNCHANGED <<b, fileformat, samples, sr, frames, frameMags, calls,
                   globalFeature, hashHex, err, cmpVars, callVars>>

\* err := cfg.ValidateAndFill()
ValidateAndFillCall ==
    /\ pc = "validate"
    /\ LET r == ValidateAndFill(localCfg)
       IN  localCfg' = r.cfg /\ err' = r.err
    /\ pc' = "validated"
    /\ UNCHANGED <<b, cfg, fileformat, samples, sr, frames, frameMags, calls,
                   globalFeature, hashHex, cmpVars, callVars>>

NextCfg == DefaultConfigCall \/ ValidateAndFillCall

SpecCfg == InitCfg /\ [][NextCfg]_vars

-----------------------------------------------------------------------------
(* Properties of the configuration *)

IsPow2(x) == \E k \in 0..30 : x = 2 ^ k

\* every PipelineConfig constraint
InRange(c) ==
    /\ c.SampleRate > 0
    /\ c.FrameSize > 0 /\ IsPow2(c.FrameSize)
    /\ 1 <= c.Hop /\ c.Hop <= c.FrameSize
    /\ 1 <= c.NumBins /\ c.NumBins <= c.FrameSize \div 2

\* C7: whenever ValidateAndFill returns nil, the config satisfies every
\* PipelineConfig constraint: SampleRate > 0, FrameSize a positive power of
\* two, 1 <= Hop <= FrameSize, 1 <= NumBins <= FrameSize/2.
C7_ValidatedConfigInRange ==
    (pc = "validated" /\ err = NoErr) => InRange(localCfg)

\* the supplied config with its zero fields replaced by the defaults
ZeroFilled(c) ==
    [c EXCEPT !.SampleRate = IF @ = 0 THEN DefaultSampleRate ELSE @,
              !.FrameSize = IF @ = 0 THEN defaultFrame ELSE @,
              !.Hop = IF @ = 0 THEN defaultFrame \div 2 ELSE @,
              !.NumBins = IF @ = 0 THEN defaultBins ELSE @]

\* C8: ValidateAndFill replaces each zero field by its default (44100, 2048,
\* 1024, 64), succeeds when the filled config is in range, changes only the
\* fields that were zero, and rejects a non-zero out-of-range field instead
\* of replacing it.
C8_FillsOnlyZeroFields ==
    pc = "validated" =>
        /\ err = NoErr <=> InRange(ZeroFilled(cfg))
        /\ err = NoErr => localCfg = ZeroFilled(cfg)
        /\ \A f \in {"SampleRate", "FrameSize", "Hop", "NumBins"} :
              cfg[f] # 0 => localCfg[f] = cfg[f]

-----------------------------------------------------------------------------
(* The framer called on a sample sequence: audio.Frame(samples, N, H) *)

FrameSampleInputs ==
    {[i \in 1..n |-> F64Div(F64FromInt(base + step * i), F64FromInt(32768))] :
        n \in 0..MaxFrameSamples, base \in {-2, 0}, step \in {0, 1}}

InitFrame ==
    /\ IdleCall
    /\ b = << >>
    /\ cfg = IdleCfg
    /\ fileformat = None
    /\ sr = 0
    /\ frameMags = << >>
    /\ calls = << >>
    /\ globalFeature = << >>
    /\ hashHex = << >>
    /\ x64 = << >>
    /\ u64 = << >>
    /\ hs = << >>
    /\ dist = IdleDist
    /\ err = NoErr
    /\ pc = "frame"
    /\ samples \in FrameSampleInputs
    /\ \E f \in 0..MaxFrameSize, h \in 0..(MaxFrameSize + 1) :
          localCfg = Config(1, f, h, 1)
    /\ frames = << >>

\* frames := audio.Frame(samples, frameSize, hop)
FrameCall ==
    /\ pc = "frame"
    /\ frames' = Frame(samples, localCfg.FrameSize, localCfg.Hop)
    /\ pc' = "framed"
    /\ UNCHANGED <<b, cfg, fileformat, localCfg, samples, sr, frameMags, calls,
                   globalFeature, hashHex, err, cmpVars, callVars>>

NextFrame == FrameCall

SpecFrame == InitFrame /\ [][NextFrame]_vars

\* C10: for 1 <= hop <= frameSize, Frame returns max(0, 1 + floor((len(s)
\* - frameSize)/hop)) frames of frameSize entries each; frame j starts at
\* sample offset j*hop and lies inside s; no frame when len(s) < frameSize.
C10_FrameCountAndOffsets ==
    LET n == Len(samples)
        N == localCfg.FrameSize
        H == localCfg.Hop
    IN  (pc = "framed" /\ 1 <= H /\ H <= N) =>
            /\ Len(frames) = Max(0, 1 + ((n - N) \div H))
            /\ n < N => Len(frames) = 0
            /\ \A j \in 0..(Len(frames) - 1) :
                  /\ Len(frames[j + 1]) = N
                  /\ j * H + N <= n
                  /\ \A k \in 0..(N - 1) :
                        /\ frames[j + 1][k + 1].x = samples[j * H + k + 1]
                        /\ frames[j + 1][k + 1].w = Hann(k, N)

\* several overlapping frames of distinct samples have been cut, the last
\* one ending exactly at the end of the sequence
C10_Witness ==
    /\ pc = "framed"
    /\ Len(frames) >= 3
    /\ localCfg.Hop < localCfg.FrameSize
    /\ (Len(frames) - 1) * localCfg.Hop + localCfg.FrameSize = Len(samples)
    /\ samples[1] # samples[2]

-----------------------------------------------------------------------------
(* Input buffers *)

LE16Bytes(v) == <<v % 256, v \div 256>>
LE32Bytes(v) == <<v % 256, (v \div 256) % 256, (v \div 65536) % 256, v \div 16777216>>

TagLIST == <<76, 73, 83, 84>>

\* n bytes repeating a pattern of seven
DataPattern == <<3, 1, 255, 254, 240, 0, 7>>
DataBytes(n) == [i \in 1..n |-> DataPattern[((i - 1) % 7) + 1]]

Chunk(tag, declared, body) == tag \o LE32Bytes(declared) \o body

FmtChunk(size, format, ch, rate, bits) ==
    Chunk(TagFmt, size,
          LE16Bytes(format) \o LE16Bytes(ch) \o LE32Bytes(rate)
          \o LE32Bytes(rate * ch * (bits \div 8)) \o LE16Bytes(ch * (bits \div 8))
          \o LE16Bytes(bits) \o [i \in 1..(size - 16) |-> 0])

\* a RIFF/WAVE buffer: header, chunks before "fmt ", the "fmt " chunk,
\* chunks before "data", and the data chunk
WavFile(riff, wave, pre, fm, mid, data) ==
    LET rest == wave \o pre \o fm \o mid \o data
    IN  riff \o LE32Bytes(Len(rest)) \o rest

WavMutations ==
    {"none", "badriff", "badwave", "format3", "bits8", "ch0", "fmt18", "pre", "mid",
     "cut1", "cut2", "cut3", "big", "nodata", "nofmt", "silent"}

\* the bytes at which the sign or a carry changes
EdgePattern == <<255, 128, 0, 127, 1>>

\* the body of the data chunk: nbytes bytes of samples of the given depth
WavBody(nbytes, bits, m) ==
    CASE m = "silent" -> [i \in 1..nbytes |-> 0]
      [] m = "lowest" -> [i \in 1..nbytes |-> IF i % (bits \div 8) = 0 THEN 128 ELSE 0]
      [] m = "highest" -> [i \in 1..nbytes |-> IF i % (bits \div 8) = 0 THEN 127 ELSE 255]
      [] m = "edges" -> [i \in 1..nbytes |-> EdgePattern[((i - 1) % 5) + 1]]
      [] OTHER -> DataBytes(nbytes)

\* a well-formed file of nf sample frames, changed in one respect
WavInput(ch, bits, rate, nf, m) ==
    LET nbytes == nf * ch * (bits \div 8)
        body == WavBody(nbytes, bits, m)
        whole ==
            WavFile(IF m = "badriff" THEN <<82, 73, 70, 88>> ELSE TagRIFF,
                    IF m = "badwave" THEN <<87, 65, 86, 88>> ELSE TagWAVE,
                    CASE m \in {"pre", "both"} -> Chunk(TagLIST, 4, <<9, 9, 9, 9>>)
                      [] m = "pre2" -> Chunk(TagLIST, 4, <<9, 9, 9, 9>>)
                                       \o Chunk(TagLIST, 1, <<9>>)
                      [] OTHER -> << >>,
                    IF m = "nofmt" THEN Chunk(TagLIST, 16, [i \in 1..16 |-> 0])
                    ELSE FmtChunk(IF m = "fmt18" THEN 18 ELSE 16,
                                  IF m = "format3" THEN 3 ELSE 1,
                                  IF m = "ch0" THEN 0 ELSE ch,
                                  rate,
                                  IF m = "bits8" THEN 8 ELSE bits),
                    IF m \in {"mid", "both"} THEN Chunk(TagLIST, 2, <<9, 9>>) ELSE << >>,
                    Chunk(IF m = "nodata" THEN TagLIST ELSE TagData,
                          IF m = "big" THEN nbytes + ch * (bits \div 8) ELSE nbytes,
                          body))
        cut == CASE m = "cut1" -> 1 [] m = "cut2" -> 2 [] m = "cut3" -> 3 [] OTHER -> 0
    IN  SubSeq(whole, 1, Len(whole) - cut)

WavRates == {0, 1, 2}

WavInputs ==
    {WavInput(ch, bits, rate, nf, m) :
        ch \in {1, 2}, bits \in {16, 24, 32}, rate \in WavRates,
        nf \in 0..MaxWavFrames, m \in WavMutations}

PcmInputs ==
    {DataBytes(n) : n \in 0..MaxPcmBytes} \cup {[i \in 1..n |-> 0] : n \in 1..MaxPcmBytes}

Formats == {"pcm16", "pcm16le", "wav", "mp3"}

NilConfig == [isNil |-> TRUE, SampleRate |-> 0, FrameSize |-> 0, Hop |-> 0, NumBins |-> 0]

\* configs tried against every buffer
FewConfigs == {Config(1, 2, 1, 1), Config(2, 4, 2, defaultBins), Config(2, 4, 0, 0)}

\* configs tried against a few buffers
ManyConfigs ==
    {Config(s, f, h, n) : s \in 0..2, f \in {-4, 0, 2, 3, 4},
                          h \in {-1, 0, 1, 3, 5}, n \in {-1, 0, 1, defaultBins}}

FewBuffers ==
    {<< >>, DataBytes(8), DataBytes(3),
     WavInput(1, 16, 1, MaxWavFrames, "none"),
     WavInput(2, 24, 2, MaxWavFrames, "ch0")}

\* buffers tried with a nil config; the WAV one is at the default rate
NilCfgBuffers ==
    {<< >>, DataBytes(8), WavInput(1, 16, DefaultSampleRate, MaxWavFrames, "none")}

-----------------------------------------------------------------------------
(* AudioPHashBytes(b, cfg, fileformat), stage by stage *)

InitPipeline ==
    /\ IdleCall
    /\ pc = "start"
    /\ \/ b \in WavInputs /\ cfg \in FewConfigs /\ fileformat = "wav"
       \/ b \in PcmInputs /\ cfg \in FewConfigs /\ fileformat \in Formats
       \/ b \in FewBuffers /\ cfg \in ManyConfigs /\ fileformat \in Formats
       \/ b \in NilCfgBuffers /\ cfg = NilConfig /\ fileformat \in Formats
    /\ localCfg = IdleCfg
    /\ samples = NoSamples
    /\ sr = 0
    /\ frames = << >>
    /\ frameMags = << >>
    /\ globalFeature = << >>
    /\ hashHex = << >>
    /\ err = NoErr
    /\ calls = << >>
    /\ x64 = << >>
    /\ u64 = << >>
    /\ hs = << >>
    /\ dist = IdleDist

\* return "", e
ReturnError(e) ==
    /\ pc' = "done"
    /\ hashHex' = << >>
    /\ err' = e

\* lines 29-40: the config is defaulted or copied, validated and filled,
\* then the empty buffer is refused
ValidateStep ==
    /\ pc = "start"
    /\ LET r == ValidateAndFill(IF cfg.isNil THEN DefaultConfig(44100) ELSE cfg)
       IN  /\ localCfg' = r.cfg
           /\ IF r.err # NoErr THEN ReturnError(r.err)
              ELSE IF Len(b) = 0 THEN ReturnError("input bytes empty")
              ELSE pc' = "decode" /\ UNCHANGED <<hashHex, err>>
    /\ calls' = Append(calls, "validate")
    /\ UNCHANGED <<b, cfg, fileformat, samples, sr, frames, frameMags, globalFeature, cmpVars, callVars>>

\* lines 55-70: the switch on the format tag
DecodeStep ==
    /\ pc = "decode"
    /\ IF fileformat \in {"pcm16", "pcm16le", "wav"}
       THEN \E d \in {IF fileformat = "wav" THEN DecodeWAVToFloat64(b)
                       ELSE DecodePCM16LEToFloat64(b)} :
                /\ calls' = Append(calls, "decode")
                /\ IF d.panic
                   THEN pc' = "panic" /\ err' = d.err
                        /\ UNCHANGED <<samples, sr, hashHex>>
                   ELSE IF d.err # NoErr
                   THEN ReturnError(d.err) /\ UNCHANGED <<samples, sr>>
                   ELSE /\ samples' = d.samples
                        /\ sr' = d.sr
                        /\ pc' = "resample"
                        /\ UNCHANGED <<hashHex, err>>
       ELSE /\ ReturnError("unsupported audio format")
            /\ UNCHANGED <<samples, sr, calls>>
    /\ UNCHANGED <<b, cfg, fileformat, localCfg, frames, frameMags, globalFeature, cmpVars, callVars>>

\* variant: the resampler runs whenever the decoder's rate is not the target
ResampleStepAnyRate ==
    /\ pc = "resample"
    /\ IF sr # localCfg.SampleRate
       THEN \E fuse \in FmaChoices :
                \E r \in {Resample(samples, sr, localCfg.SampleRate, fuse)} :
                    /\ calls' = Append(calls, "resample")
                    /\ IF r.err # NoErr
                       THEN ReturnError(r.err) /\ UNCHANGED samples
                       ELSE samples' = r.samples /\ pc' = "normalize"
                            /\ UNCHANGED <<hashHex, err>>
       ELSE pc' = "normalize" /\ UNCHANGED <<samples, calls, hashHex, err>>
    /\ UNCHANGED <<b, cfg, fileformat, localCfg, sr, frames, frameMags, globalFeature, cmpVars, callVars>>

\* lines 87-98: resample when the decoder reported another, non-zero rate
ResampleStep ==
    /\ pc = "resample"
    /\ IF sr # 0 /\ sr # localCfg.SampleRate
       THEN \E fuse \in FmaChoices :
                \E r \in {Resample(samples, sr, localCfg.SampleRate, fuse)} :
                    /\ calls' = Append(calls, "resample")
                    /\ IF r.err # NoErr
                       THEN ReturnError(r.err) /\ UNCHANGED samples
                       ELSE samples' = r.samples /\ pc' = "normalize"
                            /\ UNCHANGED <<hashHex, err>>
       ELSE pc' = "normalize" /\ UNCHANGED <<samples, calls, hashHex, err>>
    /\ UNCHANGED <<b, cfg, fileformat, localCfg, sr, frames, frameMags, globalFeature, cmpVars, callVars>>

\* line 103
NormalizeStep ==
    /\ pc = "normalize"
    /\ samples' = Normalize(samples)
    /\ calls' = Append(calls, "normalize")
    /\ pc' = "frame"
    /\ UNCHANGED <<b, cfg, fileformat, localCfg, sr, frames, frameMags, globalFeature,
                   hashHex, err, cmpVars, callVars>>

\* lines 114-117
FrameStep ==
    /\ pc = "frame"
    /\ frames' = Frame(samples, localCfg.FrameSize, localCfg.Hop)
    /\ calls' = Append(calls, "frame")
    /\ IF Len(frames') = 0 THEN ReturnError("no frames produced (audio too short?)")
       ELSE pc' = "fft" /\ UNCHANGED <<hashHex, err>>
    /\ UNCHANGED <<b, cfg, fileformat, localCfg, samples, sr, frameMags, globalFeature, cmpVars, callVars>>

\* lines 125-131: one spectrum per frame; a nil spectrum is an error.
\* The frames at odd places have one spectrum; those at even places have
\* the same one or the all-zero one.
FFTStep ==
    /\ pc = "fft"
    /\ \E odd \in MagPatterns, even \in MagPatterns :
          /\ even = odd \/ \A k \in 1..2 : even[k] = 0
          /\ frameMags' = [i \in 1..Len(frames) |->
                              ComputeMagnitude(frames[i], IF i % 2 = 1 THEN odd ELSE even)]
    /\ IF \E i \in 1..Len(frames) : Len(frames[i]) = 0
       THEN ReturnError("fft compute magnitude returned nil")
       ELSE pc' = "aggregate" /\ UNCHANGED <<hashHex, err>>
    /\ calls' = Append(calls, "fft")
    /\ UNCHANGED <<b, cfg, fileformat, localCfg, samples, sr, frames, globalFeature, cmpVars, callVars>>

\* lines 145-148
AggregateStep ==
    /\ pc = "aggregate"
    /\ globalFeature' = AggregateGlobalFeatureMedian(frameMags, localCfg.NumBins)
    /\ calls' = Append(calls, "aggregate")
    /\ IF Len(globalFeature') = 0 THEN ReturnError("no global feature produced")
       ELSE pc' = "log" /\ UNCHANGED <<hashHex, err>>
    /\ UNCHANGED <<b, cfg, fileformat, localCfg, samples, sr, frames, frameMags, cmpVars, callVars>>

\* variant: the feature goes to the hash stage as aggregated
LogStepOmitted ==
    /\ pc = "log"
    /\ pc' = "hash"
    /\ UNCHANGED <<b, cfg, fileformat, localCfg, samples, sr, frames, frameMags,
                   globalFeature, calls, hashHex, err, cmpVars, callVars>>

\* line 156
LogStep ==
    /\ pc = "log"
    /\ globalFeature' = LogScaleFeature(globalFeature)
    /\ calls' = Append(calls, "log")
    /\ pc' = "hash"
    /\ UNCHANGED <<b, cfg, fileformat, localCfg, samples, sr, frames, frameMags,
                   hashHex, err, cmpVars, callVars>>

\* lines 166-176
HashStep ==
    /\ pc = "hash"
    /\ calls' = Append(calls, "hash")
    /\ LET h == AudioPHashFromFeature(globalFeature)
       IN  IF h = << >> THEN ReturnError("failed to compute pHash")
           ELSE pc' = "done" /\ hashHex' = h /\ UNCHANGED err
    /\ UNCHANGED <<b, cfg, fileformat, localCfg, samples, sr, frames, frameMags,
                   globalFeature, cmpVars, callVars>>

Next ==
    \/ ValidateStep
    \/ DecodeStep
    \/ ResampleStep
    \/ NormalizeStep
    \/ FrameStep
    \/ FFTStep
    \/ AggregateStep
    \/ LogStep
    \/ HashStep

Init == InitPipeline

Spec == Init /\ [][Next]_vars

-----------------------------------------------------------------------------
(* Properties of AudioPHashBytes *)

\* the run has returned
Returned == pc = "done"

\* the errors of ValidateAndFill
ConfigErrors ==
    {"sample rate must be > 0", "invalid hop: must be 1..FrameSize",
     "frameSize must be a power of two"}

\* the result is a fingerprint: sixteen lowercase hexadecimal digits, nil error
IsFingerprintResult ==
    /\ Len(hashHex) = HexLen
    /\ \A k \in 1..Len(hashHex) : hashHex[k] \in LowerHexChars
    /\ err = NoErr

\* the result is a failure: the empty string and a non-nil error
IsErrorResult == hashHex = << >> /\ err # NoErr

\* C1: for every buffer, format tag and config, AudioPHashBytes finishes with
\* exactly one of (16 lowercase hex digits, nil) and ("", error); it never
\* aborts abnormally, whatever channel count a WAV fmt chunk declares.
C1_TwoOutcomesNoAbort ==
    /\ pc # "panic"
    /\ Returned => (IsFingerprintResult \/ IsErrorResult)
    /\ Returned => ~(IsFingerprintResult /\ IsErrorResult)

\* the part of C1 that leaves the abnormal end aside
ReturnedOutcomes == Returned => (IsFingerprintResult \/ IsErrorResult)

\* a supplied config that is invalid: sample rate <= 0, a frame size that is
\* set and is no power of two, a hop that is set and lies outside
\* 1..frameSize (a zero frame size or hop is unset and takes its default)
SuppliedInvalid(c) ==
    /\ ~c.isNil
    /\ \/ c.SampleRate <= 0
       \/ c.FrameSize # 0 /\ ~IsPow2(c.FrameSize)
       \/ c.Hop # 0 /\ ~(1 <= c.Hop /\ c.Hop <=
                             (IF c.FrameSize = 0 THEN defaultFrame ELSE c.FrameSize))

\* C6: whenever the supplied config is invalid, AudioPHashBytes returns the
\* configuration error before any decoder is invoked, whatever the buffer and
\* the format tag are.
C6_InvalidConfigBeforeDecode ==
    (SuppliedInvalid(cfg) /\ pc # "start") =>
        /\ Returned
        /\ IsErrorResult /\ err \in ConfigErrors
        /\ "decode" \notin Range(calls)

\* the same with the negative frame sizes and hops left aside
C6_ExceptNegative ==
    (SuppliedInvalid(cfg) /\ cfg.FrameSize >= 0 /\ cfg.Hop >= 0 /\ pc # "start") =>
        /\ Returned
        /\ IsErrorResult /\ err \in ConfigErrors
        /\ "decode" \notin Range(calls)

\* the config has passed ValidateAndFill
ConfigAccepted ==
    ValidateAndFill(IF cfg.isNil THEN DefaultConfig(44100) ELSE cfg).err = NoErr

\* C9: with a valid config, AudioPHashBytes returns an error and no
\* fingerprint when the buffer is empty, when decoding yields an empty sample
\* sequence, or when the sequence reaching the framer, after the optional
\* resampling, has fewer than frameSize samples.
C9_ShortInputIsError ==
    (Returned /\ ConfigAccepted) =>
        /\ Len(b) = 0 => IsErrorResult
        /\ ("decode" \in Range(calls) /\ Len(samples) = 0) => IsErrorResult
        /\ ("frame" \in Range(calls) /\ Len(samples) < localCfg.FrameSize)
               => IsErrorResult

\* a resampled sequence that is not empty and shorter than one frame has
\* reached the framer, and the run has returned its error
C9_Witness ==
    /\ Returned /\ ConfigAccepted
    /\ "resample" \in Range(calls) /\ "frame" \in Range(calls)
    /\ Len(samples) > 0 /\ Len(samples) < localCfg.FrameSize
    /\ IsErrorResult

-----------------------------------------------------------------------------
(* audio.Resample and audio.Normalize as called by a client, which may     *)
(* then write to the slice it got back                                     *)

MaxAudioLen == 11

\* <<base, step>>: sample i is (base + step * i) / 32768
AudioPatterns == {<<0, 0>>, <<-3, 1>>, <<50, -1>>, <<5, 0>>}

AudioInputs ==
    {[i \in 1..n |-> F64Div(F64FromInt(p[1] + p[2] * i), F64FromInt(32768))] :
        n \in 0..MaxAudioLen, p \in AudioPatterns}

\* <<fromHz, toHz>>
RatePairs ==
    {<<0, 1>>, <<1, -1>>, <<1, 1>>, <<3, 3>>, <<1, 2>>, <<2, 1>>, <<2, 3>>, <<3, 2>>,
     <<11, 15>>}

\* all but the variables of the calls to the audio package
IdleAudio ==
    /\ b = << >>
    /\ cfg = IdleCfg
    /\ fileformat = None
    /\ localCfg = IdleCfg
    /\ sr = 0
    /\ frames = << >>
    /\ frameMags = << >>
    /\ calls = << >>
    /\ globalFeature = << >>
    /\ hashHex = << >>
    /\ err = NoErr
    /\ x64 = << >>
    /\ u64 = << >>
    /\ hs = << >>
    /\ dist = IdleDist
    /\ wav = IdleWav
    /\ factor = 0

audioIdleVars == <<b, cfg, fileformat, localCfg, sr, frames, frameMags, calls,
                   globalFeature, hashHex, err, cmpVars, wav, factor>>

\* samples is the caller's slice, given its content when the call is made
InitAudio ==
    /\ IdleAudio
    /\ pc = "call"
    /\ samples \in AudioInputs
    /\ given = samples
    /\ \/ op = "Resample" /\ \E rates \in RatePairs : fromHz = rates[1] /\ toHz = rates[2]
       \/ op = "Normalize" /\ fromHz = 0 /\ toHz = 0
    /\ out = IdleOut

\* out, err := audio.Resample(samples, fromHz, toHz)
ResampleCall ==
    /\ pc = "call" /\ op = "Resample"
    /\ \E fuse \in FmaChoices : out' = Resample(samples, fromHz, toHz, fuse)
    /\ pc' = "returned"
    /\ UNCHANGED <<audioIdleVars, samples, given, fromHz, toHz, op>>

\* Normalize returns its argument itself when it is empty or all zero
NormalizeFresh(s) == ~(Len(s) = 0 \/ MaxAbs(s) = F64Zero)

\* out := audio.Normalize(samples)
NormalizeCall ==
    /\ pc = "call" /\ op = "Normalize"
    /\ out' = [samples |-> Normalize(samples), err |-> NoErr,
               fresh |-> NormalizeFresh(samples)]
    /\ pc' = "returned"
    /\ UNCHANGED <<audioIdleVars, samples, given, fromHz, toHz, op>>

\* out[i] = 2.0 by the caller: the argument changes with it when the result
\* shares its memory
WriteResult ==
    /\ pc = "returned"
    /\ out.err = NoErr
    /\ \E i \in 1..Len(out.samples) :
          /\ out' = [out EXCEPT !.samples[i] = F64Pow2(1)]
          /\ samples' = IF out.fresh THEN samples ELSE [samples EXCEPT ![i] = F64Pow2(1)]
    /\ pc' = "written"
    /\ UNCHANGED <<audioIdleVars, given, fromHz, toHz, op>>

NextAudio == ResampleCall \/ NormalizeCall \/ WriteResult

SpecAudio == InitAudio /\ [][NextAudio]_vars

-----------------------------------------------------------------------------
(* Properties of audio.Resample and audio.Normalize *)

\* Resample was called with equal positive rates on a sequence that is not empty
IdentityCall ==
    /\ op = "Resample" /\ pc \in {"returned", "written"}
    /\ fromHz > 0 /\ fromHz = toHz
    /\ given # << >>

\* C11: for every rate r > 0 and every non-empty sequence s, Resample(s, r, r)
\* returns a sequence equal to s element by element with a nil error, and
\* the result is a fresh copy: s is left unchanged by the call, and by any
\* later write to the result.
C11_IdentityIsFreshCopy ==
    IdentityCall =>
        /\ out.err = NoErr
        /\ out.fresh
        /\ Len(out.samples) = Len(given)
        /\ pc = "returned" => \A i \in 1..Len(given) : out.samples[i] = given[i]
        /\ samples = given

\* the caller has written to the copy an equal-rate call returned, and its
\* own sequence is as it was
C11_Witness ==
    /\ IdentityCall /\ pc = "written"
    /\ out.samples # given
    /\ samples = given

\* x and y differ by less than 2^-40
Near(x, y) == F64AbsLess(F64Sub(x, y), F64Pow2(-40))

\* floor(i * fromHz / toHz) in exact arithmetic
ExactIdx(i, fromRate, toRate) == (i * fromRate) \div toRate

\* output i as the claim states it: the interpolation between the samples at
\* ExactIdx and ExactIdx + 1 at the position i * fromHz / toHz, and the last
\* sample when ExactIdx + 1 is no index
ExactOutput(s, i, fromRate, toRate) ==
    IF ExactIdx(i, fromRate, toRate) + 1 < Len(s)
    THEN Interpolate(s[ExactIdx(i, fromRate, toRate) + 1],
                     s[ExactIdx(i, fromRate, toRate) + 2],
                     F64Sub(F64Div(F64FromInt(i * fromRate), F64FromInt(toRate)),
                            F64FromInt(ExactIdx(i, fromRate, toRate))),
                     "none")
    ELSE s[Len(s)]

\* Resample has returned from a call with two different positive rates on a
\* sequence that is not empty
ConvertingCall ==
    /\ op = "Resample" /\ pc = "returned"
    /\ fromHz > 0 /\ toHz > 0 /\ fromHz # toHz
    /\ given # << >>

\* C12: for different positive rates and a non-empty input of length n,
\* Resample returns exactly floor(n * target / source) samples, output i being
\* the linear interpolation between the input samples floor(i*source/target)
\* and floor(i*source/target)+1 when the latter is below n and the last input
\* sample otherwise; Resample fails when a rate is <= 0 or the input is empty.
C12_ResampleLengthAndValues ==
    /\ ConvertingCall =>
          /\ out.err = NoErr
          /\ Len(out.samples) = ResampleLenExact(Len(given), fromHz, toHz)
          /\ \A k \in 1..Len(out.samples) :
                Near(out.samples[k], ExactOutput(given, k - 1, fromHz, toHz))
    /\ (op = "Resample" /\ pc = "returned"
          /\ (fromHz <= 0 \/ toHz <= 0 \/ given = << >>)) => out.err # NoErr

\* the same with a length that may be one short of floor(n * target / source)
C12_LengthWithinOne ==
    /\ ConvertingCall =>
          /\ out.err = NoErr
          /\ Len(out.samples) \in {ResampleLenExact(Len(given), fromHz, toHz),
                                   ResampleLenExact(Len(given), fromHz, toHz) - 1}
          /\ \A k \in 1..Len(out.samples) :
                Near(out.samples[k], ExactOutput(given, k - 1, fromHz, toHz))
    /\ (op = "Resample" /\ pc = "returned"
          /\ (fromHz <= 0 \/ toHz <= 0 \/ given = << >>)) => out.err # NoErr

NormalizeReturned == op = "Normalize" /\ pc = "returned"

\* s is empty or holds zeros only
AllZero(s) == \A i \in 1..Len(s) : s[i] = F64Zero

\* the largest absolute value of the non-empty s is exactly v
PeakIs(s, v) ==
    /\ \E i \in 1..Len(s) : F64Abs(s[i]) = v
    /\ \A i \in 1..Len(s) : ~F64Less(v, F64Abs(s[i]))

\* C13: Normalize returns an empty or all-zero sequence unchanged; for a
\* sequence with a non-zero sample it returns a sequence of the same length
\* whose largest absolute value is exactly 1.0, so that
\* Normalize(Normalize(s)) = Normalize(s).
C13_NormalizePeakIsOne ==
    NormalizeReturned =>
        /\ AllZero(given) => out.samples = given
        /\ ~AllZero(given) =>
              /\ Len(out.samples) = Len(given)
              /\ PeakIs(out.samples, F64One)
              /\ Normalize(out.samples) = out.samples

\* the same up to rounding: the peak is 1.0 or the float64 just below it, and
\* normalizing again moves no sample by 2^-40 or more
C13_PeakNearOne ==
    NormalizeReturned =>
        /\ AllZero(given) => out.samples = given
        /\ ~AllZero(given) =>
              /\ Len(out.samples) = Len(given)
              /\ \/ PeakIs(out.samples, F64One)
                 \/ PeakIs(out.samples, F64Sub(F64One, F64Pow2(-53)))
              /\ \A i \in 1..Len(given) :
                    Near(Normalize(out.samples)[i], out.samples[i])

-----------------------------------------------------------------------------
(* The decoders as called by a client: DecodeWAVToFloat64(b) on a WAV file *)
(* of a known layout, cut short by some bytes, and                         *)
(* DecodePCM16LEToFloat64(b) on raw bytes                                  *)

MaxCut == 12

\* the layouts of WavMutations, those with other data bytes and those with
\* more chunks to skip
DecodeMutations == WavMutations \cup {"lowest", "highest", "edges", "pre2", "both"}

\* the layouts whose chunks are all well formed
SoundLayouts == {"none", "silent", "lowest", "highest", "edges", "fmt18", "pre", "pre2", "mid", "both"}

\* [ch, bits, rate, nf, m, cut]: the file WavInput(ch, bits, rate, nf, m)
\* without its last cut bytes
WavLayouts ==
    {[ch |-> c, bits |-> d, rate |-> r, nf |-> n, m |-> mu, cut |-> 0] :
        c \in {1, 2}, d \in {16, 24, 32}, r \in {1, 2}, n \in 0..MaxWavFrames,
        mu \in DecodeMutations}
    \cup
    {[ch |-> c, bits |-> d, rate |-> 1, nf |-> n, m |-> mu, cut |-> k] :
        c \in {1, 2}, d \in {16, 24, 32}, n \in {0, 1, MaxWavFrames},
        mu \in {"none", "pre", "mid"}, k \in 1..MaxCut}

WavBytes(w) ==
    The({SubSeq(whole, 1, Len(whole) - w.cut) :
            whole \in {WavInput(w.ch, w.bits, w.rate, w.nf, w.m)}})

DecodePcmInputs ==
    PcmInputs \cup {<<0, 128>>, <<255, 127>>, <<255, 255, 0, 128, 255, 127>>}
        \cup {<<x, y>> : x \in Range(EdgePattern), y \in Range(EdgePattern)}

\* all but the variables of the calls to the decoders
IdleDecode ==
    /\ cfg = IdleCfg
    /\ fileformat = None
    /\ localCfg = IdleCfg
    /\ frames = << >>
    /\ frameMags = << >>
    /\ calls = << >>
    /\ globalFeature = << >>
    /\ hashHex = << >>
    /\ x64 = << >>
    /\ u64 = << >>
    /\ hs = << >>
    /\ dist = IdleDist
    /\ given = << >>
    /\ fromHz = 0
    /\ toHz = 0
    /\ out = IdleOut
    /\ factor = 0

decodeIdleVars == <<cfg, fileformat, localCfg, frames, frameMags, calls, globalFeature,
                    hashHex, cmpVars, given, fromHz, toHz, out, factor>>

InitDecode ==
    /\ IdleDecode
    /\ pc = "call"
    /\ samples = NoSamples
    /\ sr = 0
    /\ err = NoErr
    /\ \/ /\ op = "DecodeWAVToFloat64"
          /\ wav \in WavLayouts
          /\ b = WavBytes(wav)
       \/ /\ op = "DecodePCM16LEToFloat64"
          /\ wav = IdleWav
          /\ b \in DecodePcmInputs

\* samples, sr, err := audio.DecodeWAVToFloat64(b)
DecodeWAVCall ==
    /\ pc = "call" /\ op = "DecodeWAVToFloat64"
    /\ \E d \in {DecodeWAVToFloat64(b)} :
          /\ samples' = d.samples
          /\ sr' = d.sr
          /\ err' = d.err
          /\ pc' = IF d.panic THEN "panic" ELSE "returned"
    /\ UNCHANGED <<decodeIdleVars, b, op, wav>>

\* samples, sr, err := audio.DecodePCM16LEToFloat64(b)
DecodePCMCall ==
    /\ pc = "call" /\ op = "DecodePCM16LEToFloat64"
    /\ \E d \in {DecodePCM16LEToFloat64(b)} :
          /\ samples' = d.samples
          /\ sr' = d.sr
          /\ err' = d.err
          /\ pc' = "returned"
    /\ UNCHANGED <<decodeIdleVars, b, op, wav>>

NextDecode == DecodeWAVCall \/ DecodePCMCall

SpecDecode == InitDecode /\ [][NextDecode]_vars

-----------------------------------------------------------------------------
(* Properties of the decoders *)

WavReturned == op = "DecodeWAVToFloat64" /\ pc = "returned"

\* the fields written into the fmt chunk of the layout w
FmtFormat(w) == IF w.m = "format3" THEN 3 ELSE 1
FmtChannels(w) == IF w.m = "ch0" THEN 0 ELSE w.ch
FmtBits(w) == IF w.m = "bits8" THEN 8 ELSE w.bits

\* the format-descriptor invariant
FmtOk(w) == FmtFormat(w) = 1 /\ FmtBits(w) \in {16, 24, 32} /\ FmtChannels(w) >= 1

\* C14: DecodeWAVToFloat64 returns samples with a nil error only if the fmt
\* chunk satisfies format code = 1, bit depth in {16, 24, 32} and channel
\* count >= 1; every buffer whose fmt chunk violates one of these (8-bit
\* PCM, a non-PCM format code, 0 channels) yields an error result.
C14_FmtInvariant ==
    (op = "DecodeWAVToFloat64" /\ pc # "call") =>
        /\ (pc = "returned" /\ err = NoErr) => FmtOk(wav)
        /\ ~FmtOk(wav) => (pc = "returned" /\ err # NoErr)

\* the same with the files of 0 channels left aside
C14_ExceptZeroChannels ==
    (op = "DecodeWAVToFloat64" /\ pc # "call" /\ FmtChannels(wav) # 0) =>
        /\ (pc = "returned" /\ err = NoErr) => FmtOk(wav)
        /\ ~FmtOk(wav) => (pc = "returned" /\ err # NoErr)

\* the bytes of one sample frame
FrameBytes(w) == w.ch * (w.bits \div 8)

\* the bytes missing at the end of the file of layout w
MissingBytes(w) ==
    w.cut + (CASE w.m = "cut1" -> 1 [] w.m = "cut2" -> 2 [] w.m = "cut3" -> 3
               [] w.m = "big" -> FrameBytes(w) [] OTHER -> 0)

\* the bytes of the body of the data chunk that are in the buffer
PresentData(w) ==
    Max(0, w.nf * FrameBytes(w) - (IF w.m = "big" THEN 0 ELSE MissingBytes(w)))

\* C15: DecodeWAVToFloat64 fails with an error on every truncated buffer: one
\* that ends inside a chunk header, inside the fmt body, inside a skipped
\* chunk, or before all the sample frames the data chunk announces have been
\* read in full, at each bit depth, a final sample present in part included.
\* No sample is produced from fewer bytes than its bit depth requires.
C15_TruncatedIsError ==
    WavReturned =>
        /\ MissingBytes(wav) > 0 => err # NoErr
        /\ err = NoErr => Len(samples) * FrameBytes(wav) <= PresentData(wav)

\* the same at the bit depths 16 and 32
C15_Except24Bit ==
    (WavReturned /\ wav.bits # 24) =>
        /\ MissingBytes(wav) > 0 => err # NoErr
        /\ err = NoErr => Len(samples) * FrameBytes(wav) <= PresentData(wav)

-----------------------------------------------------------------------------
(* The aggregator as AudioPHashBytes calls it:                             *)
(*   globalFeature := features.AggregateGlobalFeatureMedian(frameMags, n)  *)
(*   if len(globalFeature) == 0 { return "", errors.New(..) }              *)

MaxAggFrames == 4
MaxAggBins == 3
MaxAggNumBins == 4

\* the spectrum of mbins bins that starts at level a and steps by c
AggSpectrum(mbins, a, c) == [k \in 1..mbins |-> 4 * ((a + c * k) % 3)]

\* lists of n spectra of mbins bins each: spectrum i starts at level p + q*i
AggInputs ==
    {[i \in 1..n |-> AggSpectrum(mbins, p + q * i, c)] :
        n \in 0..MaxAggFrames, mbins \in 1..MaxAggBins, p \in 0..2, q \in 0..2, c \in 0..2}

\* all but the variables of the call to the aggregator
IdleAggregate ==
    /\ b = << >>
    /\ cfg = IdleCfg
    /\ fileformat = None
    /\ samples = NoSamples
    /\ sr = 0
    /\ frames = << >>
    /\ calls = << >>
    /\ hashHex = << >>
    /\ x64 = << >>
    /\ u64 = << >>
    /\ hs = << >>
    /\ dist = IdleDist
    /\ given = << >>
    /\ fromHz = 0
    /\ toHz = 0
    /\ out = IdleOut
    /\ wav = IdleWav
    /\ factor = 0

InitAggregate ==
    /\ IdleAggregate
    /\ pc = "call"
    /\ op = "AggregateGlobalFeatureMedian"
    /\ frameMags \in AggInputs
    /\ \E n \in -1..MaxAggNumBins : localCfg = Config(1, 2, 1, n)
    /\ globalFeature = << >>
    /\ err = NoErr

\* lines 145-148 of AudioPHashBytes
AggregateCall ==
    /\ pc = "call" /\ op = "AggregateGlobalFeatureMedian"
    /\ globalFeature' = AggregateGlobalFeatureMedian(frameMags, localCfg.NumBins)
    /\ err' = IF Len(globalFeature') = 0 THEN "no global feature produced" ELSE NoErr
    /\ pc' = "returned"
    /\ UNCHANGED <<b, cfg, fileformat, localCfg, samples, sr, frames, frameMags, calls,
                   hashHex, cmpVars, callVars>>

NextAggregate == AggregateCall

SpecAggregate == InitAggregate /\ [][NextAggregate]_vars

\* bin k of every spectrum of mags
BinColumn(mags, k) == [i \in 1..Len(mags) |-> mags[i][k]]

\* twice the median of the non-empty col: the central order statistic
\* twice, or the sum of the two central ones
TwiceMedianOf(col) ==
    IF Len(col) % 2 = 1 THEN 2 * KthSmallest(col, (Len(col) + 1) \div 2)
    ELSE KthSmallest(col, Len(col) \div 2) + KthSmallest(col, Len(col) \div 2 + 1)

AggregateReturned == op = "AggregateGlobalFeatureMedian" /\ pc = "returned"

-----------------------------------------------------------------------------
(* The order of the stages of AudioPHashBytes *)

\* the stages of a complete run, with or without the resampler
StageOrder(resampled) ==
    <<"validate", "decode">> \o (IF resampled THEN <<"resample">> ELSE << >>)
        \o <<"normalize", "frame", "fft", "aggregate", "log", "hash">>

IsPrefix(s, t) == Len(s) <= Len(t) /\ SubSeq(t, 1, Len(s)) = s

\* the run has returned a fingerprint
Succeeded == pc = "done" /\ err = NoErr /\ hashHex # << >>

\* the median aggregate of the spectra of this run
MedianAggregate == AggregateGlobalFeatureMedian(frameMags, localCfg.NumBins)

\* C17: the stages run in the order decode, (resample), normalize, frame,
\* spectral transform, median aggregation, log compression, hash: at every
\* step the stages run so far are a prefix of that order, and a run that
\* returns a fingerprint has run them all, the log compression once, and
\* has hashed the median aggregate compressed once.
C17_StageOrderSingleLog ==
    /\ \E r \in BOOLEAN : IsPrefix(calls, StageOrder(r))
    /\ Succeeded =>
          /\ \E r \in BOOLEAN : calls = StageOrder(r)
          /\ Cardinality({k \in 1..Len(calls) : calls[k] = "log"}) = 1
          /\ globalFeature = LogScaleFeature(MedianAggregate)
          /\ hashHex = AudioPHashFromFeature(globalFeature)

\* a run with the resampler has returned the fingerprint of a feature that
\* the compression changed
C17_Witness ==
    /\ Succeeded
    /\ calls = StageOrder(TRUE)
    /\ globalFeature # MedianAggregate
    /\ globalFeature = LogScaleFeature(MedianAggregate)

-----------------------------------------------------------------------------
(* When AudioPHashBytes resamples *)

\* the stage has run
Called(stage) == \E k \in 1..Len(calls) : calls[k] = stage

\* what the decoder of this run returns for the buffer
DecoderResult ==
    IF fileformat = "wav" THEN DecodeWAVToFloat64(b) ELSE DecodePCM16LEToFloat64(b)

\* the run is past the decision to resample
PastResampleDecision == Called("decode") /\ pc \notin {"resample", "panic"}

\* C19: Resample is called exactly when the decoder reported a rate that
\* is not 0 and not the configured target rate; the raw PCM16 decoder
\* reports rate 0, so its samples are never resampled; and when Resample
\* is not called the normalizer receives the decoded samples as they are.
C19_ResampleIffOtherRate ==
    /\ ~Called("decode") => ~Called("resample")
    /\ PastResampleDecision =>
          (Called("resample") <=> (sr # 0 /\ sr # localCfg.SampleRate))
    /\ (Called("decode") /\ fileformat \in {"pcm16", "pcm16le"}) =>
          sr = 0 /\ ~Called("resample")
    /\ (pc = "normalize" /\ ~Called("resample")) => samples = DecoderResult.samples

\* for a WAV file of another rate the resampler has run and the normalizer
\* is about to receive samples that are not the decoded ones
C19_Witness ==
    /\ pc = "normalize"
    /\ fileformat = "wav"
    /\ Called("resample")
    /\ sr # localCfg.SampleRate
    /\ Len(samples) > 0
    /\ samples # DecoderResult.samples

-----------------------------------------------------------------------------
(* The chunks of a WAV file *)

\* the bytes of channel c (from 0) of frame i (from 0) in the body of the
\* data chunk of the layout w
ChannelBytes(w, i, c) ==
    SubSeq(WavBody(w.nf * w.ch * (w.bits \div 8), w.bits, w.m),
           (i * w.ch + c) * (w.bits \div 8) + 1,
           (i * w.ch + c + 1) * (w.bits \div 8))

\* the integer the decoder makes of the bytes of one channel value
RawValue(bytes, bits) ==
    CASE bits = 16 -> Int16LE(bytes[1], bytes[2])
      [] bits = 24 -> Int24LE(bytes[1], bytes[2], bytes[3])
      [] OTHER -> Int32LE(bytes[1], bytes[2], bytes[3], bytes[4])

\* the value of these bytes as a fraction of full scale
ChannelValue(bytes, bits) == F64Div(F64FromInt(RawValue(bytes, bits)), FullScale(bits))

\* the mean over the channels of frame i of the layout w
FrameValue(w, i) ==
    F64Div(IF w.ch = 1 THEN ChannelValue(ChannelBytes(w, i, 0), w.bits)
           ELSE F64Add(ChannelValue(ChannelBytes(w, i, 0), w.bits),
                       ChannelValue(ChannelBytes(w, i, 1), w.bits)),
           F64FromInt(w.ch))

\* the samples in the body of the data chunk of the layout w
BodySamples(w) == [k \in 1..w.nf |-> FrameValue(w, k - 1)]

\* the decoder has been called on a whole file of a layout that has a valid
\* "fmt " chunk and, after it, a data chunk
SoundFileDecoded ==
    op = "DecodeWAVToFloat64" /\ pc # "call" /\ wav.cut = 0 /\ wav.m \in SoundLayouts

\* C18: after a RIFF/WAVE header, unrecognized chunks (skipped by their
\* declared size), a valid "fmt " chunk of 16 or more bytes (the bytes past
\* 16 skipped), unrecognized chunks and a data chunk that is all there,
\* DecodeWAVToFloat64 returns no error, the rate of that "fmt " chunk and
\* the samples of the body of that data chunk; a file with no "fmt " chunk,
\* or with no data chunk after it, gives an error.
C18_ChunkScanning ==
    /\ SoundFileDecoded =>
          /\ pc = "returned"
          /\ err = NoErr
          /\ sr = wav.rate
          /\ samples = BodySamples(wav)
    /\ (op = "DecodeWAVToFloat64" /\ pc # "call" /\ wav.m \in {"nofmt", "nodata"}) =>
          /\ pc = "returned"
          /\ err # NoErr
          /\ samples = NoSamples

\* a stereo file with a chunk before "fmt " and one before "data" has been
\* decoded to as many samples as it has frames
C18_Witness ==
    /\ SoundFileDecoded
    /\ wav.m = "both"
    /\ wav.ch = 2
    /\ wav.rate = 2
    /\ wav.nf = MaxWavFrames
    /\ err = NoErr
    /\ sr = 2
    /\ Len(samples) = MaxWavFrames
    /\ \E k \in 1..Len(samples) : samples[k] # F64Zero

-----------------------------------------------------------------------------
(* Two's complement *)

\* v is the signed integer whose two's-complement representation in
\* Len(bytes) bytes, low byte first, is bytes
IsTwosComplement(v, bytes) ==
    /\ \A i \in 1..Len(bytes) : (v \div Pow2(8 * (i - 1))) % 256 = bytes[i]
    /\ (v \div Pow2(8 * (Len(bytes) - 1))) \in -128..127

\* -1 <= x < 1
InUnitRange(x) == ~F64Less(x, F64Neg(F64One)) /\ F64Less(x, F64One)

\* x is v / 2^(bits-1) for the integer v that bytes represent
IsScaled(x, bytes, bits) ==
    \E v \in {F64ToInt(F64Mul(x, FullScale(bits)))} :
        /\ F64FromInt(v) = F64Mul(x, FullScale(bits))
        /\ IsTwosComplement(v, bytes)

SoundDecoded == SoundFileDecoded /\ pc = "returned" /\ err = NoErr

PcmDecoded == op = "DecodePCM16LEToFloat64" /\ pc = "returned" /\ err = NoErr

\* C20: the decoders read integer samples as two's complement: the integer
\* made of the 2, 3 or 4 bytes of a channel value is the signed
\* little-endian one, in [-2^(bits-1), 2^(bits-1) - 1]; a sample is the mean
\* over the channels of these integers divided by 32768, 8388608 or
\* 2147483648; and every channel value and every sample is in [-1, 1).
C20_TwosComplementSamples ==
    /\ SoundDecoded =>
          /\ Len(samples) = wav.nf
          /\ \A k \in 1..wav.nf :
                /\ \A c \in 0..(wav.ch - 1) :
                      /\ IsTwosComplement(RawValue(ChannelBytes(wav, k - 1, c), wav.bits),
                                          ChannelBytes(wav, k - 1, c))
                      /\ InUnitRange(ChannelValue(ChannelBytes(wav, k - 1, c), wav.bits))
                /\ samples[k] = FrameValue(wav, k - 1)
                /\ InUnitRange(samples[k])
                /\ (wav.ch = 1 /\ wav.bits < 32) =>
                      IsScaled(samples[k], ChannelBytes(wav, k - 1, 0), wav.bits)
    /\ PcmDecoded =>
          /\ Len(samples) = Len(b) \div 2
          /\ \A k \in 1..Len(samples) :
                /\ IsScaled(samples[k], SubSeq(b, 2 * k - 1, 2 * k), 16)
                /\ InUnitRange(samples[k])

\* a mono 24-bit file of the lowest samples has been decoded to samples -1
C20_Witness ==
    /\ SoundDecoded
    /\ wav.m = "lowest"
    /\ wav.ch = 1
    /\ wav.bits = 24
    /\ wav.nf = MaxWavFrames
    /\ \A k \in 1..Len(samples) : samples[k] = F64Neg(F64One)

-----------------------------------------------------------------------------
(* pkg/hash on float64 features                                            *)
(*                                                                         *)
(* AudioPHashFromFeature and median above compute on small even integers,  *)
(* for which every float64 operation of the code is exact. The operators   *)
(* here are the same code on any float64 values: the sum of the two        *)
(* central entries is rounded, and leaves the range of float64 when the    *)
(* entries are large.                                                      *)

\* the exponent of the largest finite float64, (2 - 2^-52) * 2^1023
MaxFloatExp == 1023

\* +Inf and -Inf, held as sg * 2^1024: above (below) every finite value
F64Inf(sg) == [sign |-> sg, exp |-> MaxFloatExp + 1 - (MantBits - 1), mant |-> MantOne]

F64IsInf(x) == x.sign # 0 /\ x.exp + (MantBits - 1) > MaxFloatExp

\* a rounded result as float64 holds it: an infinity beyond the largest
\* finite value
F64Range(x) == IF F64IsInf(x) THEN F64Inf(x.sign) ELSE x

\* x + y, for x and y that are not infinities of opposite signs
F64AddRange(x, y) ==
    IF F64IsInf(x) THEN x
    ELSE IF F64IsInf(y) THEN y
    ELSE F64Range(F64Add(x, y))

\* x / 2
F64Half(x) == IF F64IsInf(x) THEN x ELSE F64Div(x, F64FromInt(2))

\* sort.Float64s(s)[k - 1]: the value that has fewer than k smaller entries
\* and at least k entries not above it
SortedAt(s, k) ==
    CHOOSE v \in {s[i] : i \in 1..Len(s)} :
        /\ Cardinality({j \in 1..Len(s) : F64Less(s[j], v)}) < k
        /\ k <= Cardinality({j \in 1..Len(s) : ~F64Less(v, s[j])})

\* median (hash.go) of float64 values; n >= 1
medianFloat64(arr) ==
    IF Len(arr) % 2 = 0
    THEN F64Half(F64AddRange(SortedAt(arr, Len(arr) \div 2),
                             SortedAt(arr, Len(arr) \div 2 + 1)))
    ELSE SortedAt(arr, Len(arr) \div 2 + 1)

\* feature := make([]float64, 64); copy(feature, globalFeature); zero the rest
PadFloats(gf) == [i \in 1..HashBits |-> IF i <= Len(gf) THEN gf[i] ELSE F64Zero]

\* the loop "if val > medianVal { hash |= 1 << uint(63-i) }" over i = 0..63
HashLoopFloat64(feature, medianVal) ==
    [k \in 1..HashBits |-> IF F64Less(medianVal, feature[k]) THEN 1 ELSE 0]

\* hash.AudioPHashFromFeature on float64 values
AudioPHashFromFloats(gf) ==
    IF Len(gf) = 0 THEN << >>
    ELSE The({Sprintf016x(HashLoopFloat64(feature, medianFloat64(feature))) :
                 feature \in {PadFloats(gf)}})

-----------------------------------------------------------------------------
(* The fingerprint generator called on a feature vector, and again on the  *)
(* vector multiplied by a constant                                         *)

MaxUlps == 2
MaxFactor == 5

\* 1 + j * 2^-52 for 0 <= j < LimbBase
OnePlusUlps(j) == [sign |-> 1, exp |-> -(MantBits - 1), mant |-> <<j, 0, 0, MantOne[4]>>]

\* -1.5 * 2^1023
NegHuge == [sign |-> -1, exp |-> MaxFloatExp - (MantBits - 1),
            mant |-> <<0, 0, 0, MantOne[4] + MantOne[4] \div 2>>]

FloatVals ==
    {F64Zero, F64FromInt(2), NegHuge} \cup {OnePlusUlps(j) : j \in 0..MaxUlps}

FloatLens == {1, HashBits \div 2, HashBits \div 2 + 1, HashBits - 1, HashBits, HashBits + 1}

\* vectors that repeat two values in turn
FloatFeatureInputs ==
    {[i \in 1..n |-> IF i % 2 = 1 THEN x ELSE y] : x \in FloatVals, y \in FloatVals, n \in FloatLens}

InitRank ==
    /\ IdlePipe
    /\ err = NoErr
    /\ x64 = << >>
    /\ u64 = << >>
    /\ hs = << >>
    /\ dist = IdleDist
    /\ fromHz = 0
    /\ toHz = 0
    /\ out = IdleOut
    /\ wav = IdleWav
    /\ pc = "call"
    /\ op = "AudioPHashFromFeature"
    /\ globalFeature \in FloatFeatureInputs
    /\ given = globalFeature
    /\ factor = 0
    /\ hashHex = << >>

rankIdleVars == <<pipeVars, cmpVars, err, fromHz, toHz, out, wav, op, given>>

\* hashHex := hash.AudioPHashFromFeature(globalFeature)
HashFloatsCall ==
    /\ pc = "call" /\ op = "AudioPHashFromFeature"
    /\ hashHex' = AudioPHashFromFloats(globalFeature)
    /\ pc' = "hashed"
    /\ UNCHANGED <<rankIdleVars, globalFeature, factor>>

\* the client multiplies every feature by a constant k > 0
ScaleCall ==
    /\ pc = "hashed" /\ op = "AudioPHashFromFeature"
    /\ \E k \in 1..MaxFactor :
          /\ factor' = k
          /\ globalFeature' = [i \in 1..Len(globalFeature) |->
                                  F64Range(F64Mul(globalFeature[i], F64FromInt(k)))]
    /\ pc' = "scaled"
    /\ UNCHANGED <<rankIdleVars, hashHex>>

\* hashHex := hash.AudioPHashFromFeature(globalFeature) on the scaled features
RehashCall ==
    /\ pc = "scaled" /\ op = "AudioPHashFromFeature"
    /\ hashHex' = AudioPHashFromFloats(globalFeature)
    /\ pc' = "rehashed"
    /\ UNCHANGED <<rankIdleVars, globalFeature, factor>>

NextRank == HashFloatsCall \/ ScaleCall \/ RehashCall

SpecRank == InitRank /\ [][NextRank]_vars

-----------------------------------------------------------------------------
(* Properties of the fingerprints of float64 features *)

\* a fingerprint has been produced
FloatsHashed ==
    op = "AudioPHashFromFeature" /\ pc \in {"hashed", "rehashed"} /\ hashHex # << >>

\* the 64-bit value a produced fingerprint denotes
WordOf(h) == HexToUint64(h).v

ZeroFingerprint == [k \in 1..HexLen |-> "0"]

\* the 64 padded entries are one value
AllPaddedEqual(v) == \A i \in 1..HashBits : PadFloats(v)[i] = PadFloats(v)[1]

\* the sum of the two central entries is beyond the range of float64
MedianOverflows(v) == F64IsInf(medianFloat64(PadFloats(v)))

\* C21: a fingerprint AudioPHashFromFeature produces has at most 32 of its
\* 64 bits set; the Hamming distance between two produced fingerprints is
\* at most the sum of their numbers of set bits; and a vector whose 64
\* padded entries are all equal gives the fingerprint 0000000000000000.
C21_AtMostHalfSet ==
    /\ FloatsHashed =>
          /\ OnesCount64(WordOf(hashHex)) <= HashBits \div 2
          /\ AllPaddedEqual(globalFeature) => hashHex = ZeroFingerprint
    /\ (FloatsHashed /\ pc = "rehashed") =>
          HammingDistance(WordOf(AudioPHashFromFloats(given)), WordOf(hashHex))
              <= OnesCount64(WordOf(AudioPHashFromFloats(given)))
                 + OnesCount64(WordOf(hashHex))

\* the same, for the vectors whose median is a finite value
C21_UnlessMedianOverflows ==
    /\ (FloatsHashed /\ ~MedianOverflows(globalFeature)) =>
          /\ OnesCount64(WordOf(hashHex)) <= HashBits \div 2
          /\ AllPaddedEqual(globalFeature) => hashHex = ZeroFingerprint
    /\ (FloatsHashed /\ pc = "rehashed") =>
          HammingDistance(WordOf(AudioPHashFromFloats(given)), WordOf(hashHex))
              <= OnesCount64(WordOf(AudioPHashFromFloats(given)))
                 + OnesCount64(WordOf(hashHex))

\* a vector of 64 equal entries has been hashed to a fingerprint of 64 set bits
C21_AllBitsSet ==
    /\ FloatsHashed
    /\ pc = "hashed"
    /\ AllPaddedEqual(globalFeature)
    /\ OnesCount64(WordOf(hashHex)) = HashBits

NonNegative(v) == \A i \in 1..Len(v) : v[i].sign >= 0

\* the features were not negative and have been multiplied by a constant
\* k > 0, and both vectors hashed
ScaledRehashed ==
    op = "AudioPHashFromFeature" /\ pc = "rehashed" /\ factor > 0 /\ NonNegative(given)

\* C22: the fingerprint depends only on the rank order of the padded
\* vector: multiplying every entry of a non-negative feature vector by a
\* constant k > 0 does not change the fingerprint.
C22_ScalingKeepsFingerprint ==
    ScaledRehashed => hashHex = AudioPHashFromFloats(given)

\* the same for the constants that are powers of two, by which float64
\* multiplies exactly
C22_PowerOfTwoKeepsFingerprint ==
    (ScaledRehashed /\ \E e \in 0..MaxFactor : factor = 2 ^ e) =>
        hashHex = AudioPHashFromFloats(given)

\* the scaling changed the features, and the fingerprint is the same
C22_ScaledSame ==
    /\ ScaledRehashed
    /\ factor = 2
    /\ Len(given) = HashBits
    /\ globalFeature # given
    /\ hashHex = AudioPHashFromFloats(given)
    /\ hashHex # ZeroFingerprint

====
